---- MODULE Spec2Model ----
(***************************************************************************)
(* A model of the flasher's serial session manager (useSerialConnection),  *)
(* its flash orchestrator (useFlashOperations) and its device command      *)
(* protocol (usePreferences).  Every action is one synchronous segment of  *)
(* an async function: it starts where an `await` resumes and runs to the   *)
(* next `await`, so the interleavings of the model are the interleavings   *)
(* of the JavaScript event loop.                                           *)
(***************************************************************************)
EXTENDS Integers, Sequences, FiniteSets, TLC

\* ------------------------------------------------------------------ bounds
MaxTasks == 2
MaxOps == 3
\* Fetches of firmware files in flight at once.
MaxLoads == 2
ImageBlocks == 2
\* command lines the device holds unanswered; chunks waiting in the stream
MaxPending == 2
MaxRx == 2
MaxRetryCalls == 1

Tasks == 1..MaxTasks

\* ------------------------------------------------------------- constants
MAX_RETRIES == 3


\* ------------------------------------------------------------------- text
\* A string is a sequence of one-character strings.
RESPONSE == <<":", "R", "E", "S", "P", "O", "N", "S", "E">>
END == <<"E", "N", "D">>
ERROR == <<"E", "R", "R", "O", "R">>
GET_PREFS == <<"G", "E", "T", "_", "P", "R", "E", "F", "S">>
GET_PREF_KEYS == <<"G", "E", "T", "_", "P", "R", "E", "F", "_", "K", "E", "Y", "S">>

\* The characters /\s/ matches and String.prototype.trim strips.
IsSpace(c) == c \in {" ", "\n", "\t", "\r"}

AllSpace(s, from, to) == \A i \in from..to : IsSpace(s[i])

\* String.prototype.trim
Trim(s) ==
  IF AllSpace(s, 1, Len(s)) THEN <<>>
  ELSE LET first == CHOOSE i \in 1..Len(s) : ~IsSpace(s[i]) /\ AllSpace(s, 1, i - 1)
           last == CHOOSE i \in 1..Len(s) : ~IsSpace(s[i]) /\ AllSpace(s, i + 1, Len(s))
       IN SubSeq(s, first, last)

\* sub occurs in s at index i
IsAt(s, sub, i) ==
  /\ i >= 1 /\ i + Len(sub) - 1 <= Len(s)
  /\ \A j \in 1..Len(sub) : s[i + j - 1] = sub[j]

\* String.prototype.includes
Includes(s, sub) == \E i \in 1..(Len(s) + 1) : IsAt(s, sub, i)

\* The characters that are special in a regular expression (line 9).
RegexSpecial == {".", "*", "+", "?", "^", "$", "{", "}", "(", ")", "|", "[", "]", "\\"}

\* escapeRegex, lines 8-10: a backslash goes before every special character.
RECURSIVE escapeRegex(_)
escapeRegex(str) ==
  IF str = <<>> THEN <<>>
  ELSE (IF Head(str) \in RegexSpecial THEN <<"\\", Head(str)>> ELSE <<Head(str)>>)
       \o escapeRegex(Tail(str))

\* The atoms of a regular expression's source text, for the sources that
\* `${escaped}` can hold: an escaped character stands for itself, a bare "."
\* for any character but a line break, another character for itself.
RECURSIVE Atoms(_)
Atoms(src) ==
  IF src = <<>> THEN <<>>
  ELSE IF Head(src) = "\\" /\ Len(src) >= 2
    THEN <<[any |-> FALSE, c |-> src[2]]>> \o Atoms(Tail(Tail(src)))
    ELSE <<[any |-> Head(src) = ".", c |-> Head(src)]>> \o Atoms(Tail(src))

AtomMatches(a, c) == IF a.any THEN c \notin {"\n", "\r"} ELSE a.c = c

\* the atoms match text from index i on
AtomsAt(text, atoms, i) ==
  /\ i >= 1 /\ i + Len(atoms) - 1 <= Len(text)
  /\ \A j \in 1..Len(atoms) : AtomMatches(atoms[j], text[i + j - 1])

\* the atoms of `${escaped}:RESPONSE`
EchoAtoms(command) == Atoms(escapeRegex(command) \o RESPONSE)

\* hasValidResponse, lines 19-22: /<escaped>:RESPONSE[\s\S]*END/.test(text)
hasValidResponse(text, command) ==
  LET atoms == EchoAtoms(command) IN
  \E i \in 1..(Len(text) + 1) :
    /\ AtomsAt(text, atoms, i)
    /\ \E e \in (i + Len(atoms))..(Len(text) + 1) : IsAt(text, END, e)

\* /\s*END/ matches text from index q on
SpaceEndAt(text, q) ==
  \E k \in 0..(Len(text) + 1 - q) :
    AllSpace(text, q, q + k - 1) /\ IsAt(text, END, q + k)

\* extractResponse, lines 12-17: /<escaped>:RESPONSE\s*([\s\S]*?)\s*END/ is
\* matched at the leftmost index where it can match; the first \s* is greedy
\* (the longest run of spaces that still lets the rest match), the group lazy
\* (the shortest text after which \s*END matches).  Without a match the text
\* itself is returned.
extractResponse(text, command) ==
  LET atoms == EchoAtoms(command)
      Starts == {i \in 1..(Len(text) + 1) :
                   /\ AtomsAt(text, atoms, i)
                   /\ \E q \in (i + Len(atoms))..(Len(text) + 1) : SpaceEndAt(text, q)}
  IN IF Starts = {} THEN text
     ELSE LET i == CHOOSE x \in Starts : \A y \in Starts : x <= y
              p == i + Len(atoms)
              Lead == {w \in 0..(Len(text) + 1 - p) :
                         /\ AllSpace(text, p, p + w - 1)
                         /\ \E q \in (p + w)..(Len(text) + 1) : SpaceEndAt(text, q)}
              w == CHOOSE x \in Lead : \A y \in Lead : y <= x
              Group == {g \in 0..(Len(text) + 1 - p - w) : SpaceEndAt(text, p + w + g)}
              g == CHOOSE x \in Group : \A y \in Group : x <= y
          IN Trim(SubSeq(text, p + w, p + w + g - 1))

VARIABLES
  \* useSerialConnection: React state and refs (0 stands for null)
  isConnected, chip, portRef, writerRef, readerRef, transportRef, espLoaderRef,
  \* useFlashOperations: React state
  isErasing, isProgramming, progress,
  \* usePreferences: React state
  isUpdating, isLoading, preferences, settingsKeys, settingsValues,
  \* useFirmwareLoader: React state, and the loadFirmware calls awaiting fetch
  selectedLabel, flashType, firmwareData, firmwareIsLoading, loads,
  \* the platform: Web Serial port, its stream locks, the esptool transports
  serialLib, plugged, portOpen, readerLock, writerLock, connected, released, nextId,
  \* the byte stream: chunks not yet read, read requests not yet fulfilled,
  \* commands the device has received and not yet answered
  rxQueue, pendingReads, devInbox,
  \* the async calls in flight, and how the callers behave
  tasks, opsStarted, commandsLeft, callersSerialize,
  \* a call of one of the pure helpers of usePreferences: its arguments, its results
  helperIn, helperOut

refs == <<portRef, writerRef, readerRef, transportRef, espLoaderRef>>
conn == <<isConnected, chip>>
ui == <<isErasing, isProgramming, progress, isUpdating, isLoading>>
locks == <<readerLock, writerLock>>
stream == <<rxQueue, pendingReads, devInbox>>
budget == <<opsStarted, commandsLeft>>
helper == <<helperIn, helperOut>>
prefsData == <<preferences, settingsKeys, settingsValues>>
firmware == <<selectedLabel, flashType, firmwareData, firmwareIsLoading, loads>>
vars == <<isConnected, chip, portRef, writerRef, readerRef, transportRef, espLoaderRef,
          isErasing, isProgramming, progress, isUpdating,
          serialLib, plugged, portOpen, readerLock, writerLock, connected, released, nextId,
          rxQueue, pendingReads, devInbox, tasks, opsStarted, commandsLeft, callersSerialize,
          helperIn, helperOut, isLoading, preferences, settingsKeys, settingsValues,
          selectedLabel, flashType, firmwareData, firmwareIsLoading, loads>>

NoChip == "null"
NativeChip == "Native Connection"
DetectedChip == "ESP32"

\* What the hook holds: the fields a caller can tell modes apart by.
Snapshot ==
  [isConnected |-> isConnected, chip |-> chip, portRef |-> portRef,
   writerRef |-> writerRef, readerRef |-> readerRef,
   transportRef |-> transportRef, espLoaderRef |-> espLoaderRef]

NoSnapshot ==
  [isConnected |-> FALSE, chip |-> NoChip, portRef |-> 0, writerRef |-> 0,
   readerRef |-> 0, transportRef |-> 0, espLoaderRef |-> 0]

\* firmwareData is null (useFirmwareLoader.ts 8), or the binary string of one
\* fetched file, told apart by the release and the kind of image it is.
NullImage == [label |-> "", type |-> ""]

IdleTask ==
  [op |-> "none", pc |-> "idle", outcome |-> "none", err |-> "",
   pre |-> NoSnapshot, lr |-> 0, lw |-> 0, lp |-> 0, tr |-> 0, ld |-> 0, ct |-> 0,
   made |-> {}, fnErr |-> "", touched |-> FALSE, reentrant |-> FALSE,
   written |-> 0, reset |-> FALSE, waited |-> 0, swallowed |-> {},
   prefs |-> <<>>, cmd |-> <<>>, attempt |-> 0, sends |-> 0, response |-> <<>>, log |-> <<>>,
   sent |-> <<>>, result |-> <<>>,
   caught |-> "", preKeys |-> <<>>, preValues |-> <<>>,
   image |-> NullImage, address |-> 0]

FlashOps == {"erase", "program"}

FlashInFlight(t) == tasks[t].op \in FlashOps /\ tasks[t].pc \notin {"idle", "done"}

\* usePreferences 67-70 and useFirmwareLoader 7-10: the initial React state.
AppIdle ==
  /\ isLoading = FALSE
  /\ preferences = <<>> /\ settingsKeys = <<>> /\ settingsValues = <<>>
  /\ selectedLabel = "" /\ flashType = "fw" /\ firmwareData = NullImage
  /\ firmwareIsLoading = FALSE /\ loads = {}

\* ------------------------------------------------------------------- Init
Init ==
  /\ isConnected = FALSE /\ chip = NoChip
  /\ portRef = 0 /\ writerRef = 0 /\ readerRef = 0
  /\ transportRef = 0 /\ espLoaderRef = 0
  /\ isErasing = FALSE /\ isProgramming = FALSE /\ progress = 0
  /\ isUpdating = FALSE /\ AppIdle
  /\ serialLib \in BOOLEAN
  /\ plugged = TRUE /\ portOpen = FALSE
  /\ readerLock = 0 /\ writerLock = 0
  /\ connected = {} /\ released = {} /\ nextId = 1
  /\ rxQueue = <<>> /\ pendingReads = <<>> /\ devInbox = <<>>
  /\ tasks = [t \in Tasks |-> IdleTask]
  /\ opsStarted = 0 /\ commandsLeft = MaxRetryCalls
  /\ callersSerialize = TRUE
  /\ helperIn = <<>> /\ helperOut = <<>>

\* ---------------------------------------------------------------- helpers
Set(t, rec) == tasks' = [tasks EXCEPT ![t] = rec]

FlagsCleared_KeepsProgress(op) ==
  /\ isErasing' = IF op = "erase" THEN FALSE ELSE isErasing
  /\ isProgramming' = IF op = "program" THEN FALSE ELSE isProgramming
  /\ progress' = progress
  /\ isUpdating' = IF op \in {"update", "save"} THEN FALSE ELSE isUpdating
  /\ isLoading' = IF op = "initializeSettings" THEN FALSE ELSE isLoading

\* useFlashOperations.ts 16-18, 46-49: the finally blocks of eraseFlash and
\* programFlash, and the finally block of updateAllSettings (usePreferences
\* 151-153), run when the call of that operation completes.
FlagsCleared(op) ==
  /\ isErasing' = IF op = "erase" THEN FALSE ELSE isErasing
  /\ isProgramming' = IF op = "program" THEN FALSE ELSE isProgramming
  /\ progress' = IF op = "program" THEN 0 ELSE progress
  /\ isUpdating' = IF op \in {"update", "save"} THEN FALSE ELSE isUpdating
  /\ isLoading' = IF op = "initializeSettings" THEN FALSE ELSE isLoading

Settled_Rethrows(rec, outcome, err) ==
  [rec EXCEPT !.pc = "done", !.outcome = outcome, !.err = err]

\* What the caller of the call gets.  An error thrown by initializeSettings is
\* caught by the connect intent, which then returns (App.tsx 107-111).
Settled(rec, outcome, err) ==
  IF rec.op = "initializeSettings" /\ outcome = "threw"
    THEN [rec EXCEPT !.pc = "done", !.outcome = "returned", !.err = "", !.caught = err]
    ELSE [rec EXCEPT !.pc = "done", !.outcome = outcome, !.err = err]

\* The call of task t completes: it returns ("returned") or throws ("threw").
Finish(t, rec, outcome, err) ==
  /\ Set(t, Settled(rec, outcome, err))
  /\ FlagsCleared(rec.op)

\* The call of task t suspends at its next await.
Continue(t, rec) == Set(t, rec) /\ UNCHANGED ui

\* A completed call hands its result to its caller before anything else runs
\* (the continuation of an await is a microtask).
NoneDone == \A u \in Tasks : tasks[u].pc # "done"

\* Task t is suspended at the await labelled l, and may resume.
At(t, l) == tasks[t].pc = l /\ NoneDone

\* Callers that serialize (the UI disables its controls while busy) start a
\* call only when no other call is in flight; the hooks themselves accept a
\* call at any time.
CanStart(t) ==
  /\ At(t, "idle")
  /\ \A u \in 1..(t - 1) : tasks[u].pc # "idle"
  /\ opsStarted < MaxOps
  /\ callersSerialize => \A u \in Tasks : tasks[u].pc = "idle"

Begin(t, op) ==
  [IdleTask EXCEPT !.op = op, !.pre = Snapshot,
                   !.reentrant = \E u \in Tasks \ {t} : FlashInFlight(u)]

\* ------------------------------------------------------ setupNativeSerial
\* port.open({ baudRate }) is called (line 72): a port that is open at the
\* call rejects whatever happens to it afterwards.
OpenCalled == IF portOpen THEN "sns_rejected" ELSE "sns_open"

\* Lines 63-72 up to the first await: requestPort when no port is held,
\* port.open otherwise.
setupNativeSerialEntry(t, rec) ==
  IF portRef = 0 /\ ~serialLib
    THEN Finish(t, rec, "threw", "Web Serial API not available")
    ELSE Continue(t, [rec EXCEPT !.pc = IF portRef = 0 THEN "sns_request" ELSE OpenCalled,
                                 !.touched = @ \/ portRef # 0])

\* The caller's code after `await setupNativeSerial(..)` returned: connect sets
\* isConnected (line 116); withESPTool leaves its finally block and returns
\* fn's value or rethrows fn's error (lines 182-187).
AfterSetupNativeSerial(t, rec) ==
  /\ isConnected' = IF rec.op \in {"connect", "onConnect"} THEN TRUE ELSE isConnected
  /\ IF rec.op \in FlashOps /\ rec.fnErr # ""
       THEN Finish(t, rec, "threw", rec.fnErr)
       ELSE IF rec.op = "onConnect"
         THEN Continue(t, [rec EXCEPT !.pc = "oc_connected"])
         ELSE Finish(t, rec, "returned", "")

\* connect(baudRate), lines 113-119, up to the first await.
Connect(t) ==
  /\ CanStart(t)
  /\ opsStarted' = opsStarted + 1
  /\ setupNativeSerialEntry(t, Begin(t, "connect"))
  /\ UNCHANGED <<refs, conn, serialLib, plugged, portOpen, locks, connected, released,
                 nextId, stream, commandsLeft, callersSerialize, helper, prefsData, firmware>>

\* `await serialLib.requestPort({})` settles (line 68): the picker yields the
\* port (the user may have plugged the device in again) or rejects.
SnsRequest(t) ==
  /\ At(t, "sns_request")
  /\ \E picked \in BOOLEAN :
       IF picked
         THEN /\ portRef' = 1
              /\ plugged' = TRUE
              /\ readerLock' = IF plugged THEN readerLock ELSE 0
              /\ writerLock' = IF plugged THEN writerLock ELSE 0
              /\ Continue(t, [tasks[t] EXCEPT !.pc = OpenCalled, !.touched = TRUE])
         ELSE /\ Finish(t, tasks[t], "threw", "requestPort rejected")
              /\ UNCHANGED <<portRef, plugged, locks>>
  /\ UNCHANGED <<writerRef, readerRef, transportRef, espLoaderRef, conn, serialLib,
                 portOpen, connected, released, nextId, stream, budget, callersSerialize, helper, prefsData, firmware>>

\* port.open rejected: setupNativeSerial throws at line 72, before any handle
\* is acquired or the chip is set; connect throws before line 116.
portOpenRejected_ConnectedEarly(t) ==
  /\ Finish(t, tasks[t], "threw", "port.open rejected")
  /\ isConnected' = TRUE
  /\ UNCHANGED <<portOpen, writerRef, readerRef, locks, nextId, chip>>

portOpenRejected(t) ==
  /\ Finish(t, tasks[t], "threw", "port.open rejected")
  /\ UNCHANGED <<portOpen, writerRef, readerRef, locks, nextId, conn>>

\* `await port.open({ baudRate })` settles (line 72), then lines 73-75 and the
\* caller's continuation.  open rejects when the port was open at the call,
\* when the device is gone or when another open got there first;
\* getWriter/getReader throw when the stream is locked.
SnsOpen(t) ==
  /\ At(t, "sns_open") \/ At(t, "sns_rejected")
  /\ IF tasks[t].pc = "sns_open" /\ plugged /\ ~portOpen
       THEN /\ portOpen' = TRUE
            /\ IF writerLock # 0
                 THEN /\ Finish(t, tasks[t], "threw", "getWriter threw")
                      /\ UNCHANGED <<writerRef, readerRef, locks, nextId, conn>>
                 ELSE IF readerLock # 0
                   THEN /\ writerRef' = nextId /\ writerLock' = nextId
                        /\ nextId' = nextId + 1
                        /\ Finish(t, tasks[t], "threw", "getReader threw")
                        /\ UNCHANGED <<readerRef, readerLock, conn>>
                   ELSE /\ writerRef' = nextId /\ writerLock' = nextId
                        /\ readerRef' = nextId + 1 /\ readerLock' = nextId + 1
                        /\ nextId' = nextId + 2
                        /\ chip' = NativeChip
                        /\ AfterSetupNativeSerial(t, tasks[t])
       ELSE portOpenRejected(t)
  /\ UNCHANGED <<portRef, transportRef, espLoaderRef, serialLib, plugged, connected,
                 released, stream, budget, callersSerialize, helper, prefsData, firmware>>

\* ------------------------------------------------------ closeNativeSerial
\* Lines 25-34 (or 25-55 when no reader is held): the refs are cleared first,
\* then the reader is cancelled.
closeNativeSerialEntry(t, rec) ==
  /\ readerRef' = 0 /\ writerRef' = 0
  /\ IF readerRef # 0
       THEN /\ Set(t, [rec EXCEPT !.lr = readerRef, !.lw = writerRef, !.lp = portRef,
                                  !.pc = "cns_cancel"])
            /\ UNCHANGED writerLock
       ELSE /\ writerLock' = IF writerRef # 0 /\ writerLock = writerRef THEN 0 ELSE writerLock
            /\ Set(t, [rec EXCEPT !.lw = writerRef, !.lp = portRef,
                                  !.pc = IF portRef # 0 THEN "cns_close" ELSE "cns_ret",
                                  !.touched = portRef # 0])

\* cleanupESPTool, lines 79-85: the refs are cleared, then the transport (if
\* any) is disconnected.
cleanupESPToolEntry(t, rec) ==
  /\ transportRef' = 0 /\ espLoaderRef' = 0
  /\ Set(t, [rec EXCEPT !.ct = transportRef, !.pc = "cet"])

setupESPToolEntry_NoPortCheck(t, rec) ==
  /\ transportRef' = nextId /\ espLoaderRef' = nextId
  /\ nextId' = nextId + 1
  /\ Continue(t, [rec EXCEPT !.tr = nextId, !.made = @ \cup {nextId},
                             !.touched = TRUE, !.pc = "main"])

\* setupESPTool, lines 93-108, up to `await loader.main()`.
setupESPToolEntry(t, rec) ==
  IF portRef = 0
    THEN /\ Finish(t, rec, "threw", "No device available")
         /\ UNCHANGED <<transportRef, espLoaderRef, nextId>>
    ELSE /\ transportRef' = nextId /\ espLoaderRef' = nextId
         /\ nextId' = nextId + 1
         /\ Continue(t, [rec EXCEPT !.tr = nextId, !.made = @ \cup {nextId},
                                    !.touched = TRUE, !.pc = "main"])

\* disconnect(), called directly or by the App's handleDisconnect.
DisconnectOps == {"disconnect", "handleDisconnect"}

\* The caller's code after `await closeNativeSerial()`: disconnect goes on to
\* cleanupESPTool (line 123), withESPTool to setupESPTool (line 176).
AfterCloseNativeSerial(t, rec) ==
  IF rec.op \in DisconnectOps
    THEN cleanupESPToolEntry(t, rec) /\ UNCHANGED <<nextId, ui>>
    ELSE setupESPToolEntry(t, rec)

\* disconnect(), lines 121-122, up to the first await.
Disconnect(t) ==
  /\ CanStart(t)
  /\ opsStarted' = opsStarted + 1
  /\ closeNativeSerialEntry(t, Begin(t, "disconnect"))
  /\ UNCHANGED <<portRef, transportRef, espLoaderRef, conn, ui, serialLib, plugged,
                 portOpen, readerLock, connected, released, nextId, stream,
                 commandsLeft, callersSerialize, helper, prefsData, firmware>>

\* eraseFlash(), useFlashOperations.ts 12-15, then withESPTool line 175 and
\* closeNativeSerial up to its first await.
EraseFlash(t) ==
  /\ CanStart(t)
  /\ opsStarted' = opsStarted + 1
  /\ isErasing' = TRUE
  /\ closeNativeSerialEntry(t, Begin(t, "erase"))
  /\ UNCHANGED <<portRef, transportRef, espLoaderRef, conn, isProgramming, progress,
                 isUpdating, isLoading,
                 serialLib, plugged, portOpen, readerLock, connected, released, nextId,
                 stream, commandsLeft, callersSerialize, helper, prefsData, firmware>>

\* programFlash(fileData, address), useFlashOperations.ts 21-26, likewise.
ProgramFlash(t) ==
  /\ CanStart(t)
  /\ opsStarted' = opsStarted + 1
  /\ isProgramming' = TRUE
  /\ progress' = 0
  /\ closeNativeSerialEntry(t, Begin(t, "program"))
  /\ UNCHANGED <<portRef, transportRef, espLoaderRef, conn, isErasing, isUpdating, isLoading,
                 serialLib, plugged, portOpen, readerLock, connected, released, nextId,
                 stream, commandsLeft, callersSerialize, helper, prefsData, firmware>>

\* `await reader.cancel()` settles (line 34): pending reads end, queued chunks
\* are dropped; then the locks are released (39, 47) and port.close is called.
\* cancel rejects on a reader whose lock is gone; the catch of lines 35-37
\* swallows it.
CnsCancel(t) ==
  /\ At(t, "cns_cancel")
  /\ LET rec == tasks[t] IN
       /\ IF readerLock = rec.lr
            THEN rxQueue' = <<>> /\ pendingReads' = <<>>
            ELSE UNCHANGED <<rxQueue, pendingReads>>
       /\ readerLock' = IF readerLock = rec.lr THEN 0 ELSE readerLock
       /\ writerLock' = IF rec.lw # 0 /\ writerLock = rec.lw THEN 0 ELSE writerLock
       /\ Set(t, [rec EXCEPT !.pc = IF rec.lp # 0 THEN "cns_close" ELSE "cns_ret",
                             !.touched = @ \/ rec.lp # 0,
                             !.swallowed = IF readerLock = rec.lr THEN @
                                           ELSE @ \cup {"reader.cancel"}])
  /\ UNCHANGED <<refs, conn, ui, serialLib, plugged, portOpen, connected, released,
                 nextId, devInbox, budget, callersSerialize, helper, prefsData, firmware>>

\* port.close() closes an open port whose streams are unlocked, and rejects
\* otherwise (the rejection is swallowed, lines 56-58).
PortCloses == portOpen /\ readerLock = 0 /\ writerLock = 0

CnsClose_Rethrows(t) ==
  /\ At(t, "cns_close")
  /\ portOpen' = IF PortCloses THEN FALSE ELSE portOpen
  /\ connected' = IF PortCloses THEN {} ELSE connected
  /\ IF PortCloses
       THEN rxQueue' = <<>> /\ pendingReads' = <<>>
       ELSE UNCHANGED <<rxQueue, pendingReads>>
  /\ IF PortCloses
       THEN AfterCloseNativeSerial(t, tasks[t])
       ELSE /\ Finish(t, tasks[t], "threw", "port.close rejected")
            /\ UNCHANGED <<transportRef, espLoaderRef, nextId>>
  /\ UNCHANGED <<portRef, writerRef, readerRef, conn, serialLib, plugged, locks,
                 released, devInbox, budget, callersSerialize, helper, prefsData, firmware>>

\* `await port.close()` settles (line 55); closeNativeSerial returns.
CnsClose(t) ==
  /\ At(t, "cns_close")
  /\ portOpen' = IF PortCloses THEN FALSE ELSE portOpen
  /\ connected' = IF PortCloses THEN {} ELSE connected
  /\ IF PortCloses
       THEN rxQueue' = <<>> /\ pendingReads' = <<>>
       ELSE UNCHANGED <<rxQueue, pendingReads>>
  /\ AfterCloseNativeSerial(t, [tasks[t] EXCEPT !.swallowed = IF PortCloses THEN @
                                                               ELSE @ \cup {"port.close"}])
  /\ UNCHANGED <<portRef, writerRef, readerRef, conn, serialLib, plugged, locks,
                 released, devInbox, budget, callersSerialize, helper, prefsData, firmware>>

\* closeNativeSerial had no port to close; `await closeNativeSerial()` resumes.
CnsRet(t) ==
  /\ At(t, "cns_ret")
  /\ AfterCloseNativeSerial(t, tasks[t])
  /\ UNCHANGED <<portRef, writerRef, readerRef, conn, serialLib, plugged, portOpen,
                 locks, connected, released, stream, budget, callersSerialize, helper, prefsData, firmware>>

\* ------------------------------------------------------------ withESPTool
\* `await loader.main()` settles (line 108).  The loader opens the port through
\* its transport and runs the sync handshake; either can fail.  On success
\* lines 109-110 and 178-182 follow: the chip is stored and fn is called.
Main(t) ==
  /\ At(t, "main")
  /\ LET rec == tasks[t] IN
     \E synced \in BOOLEAN :
       IF plugged /\ ~portOpen
         THEN /\ portOpen' = TRUE
              /\ connected' = connected \cup {rec.tr}
              /\ IF synced
                   THEN /\ chip' = DetectedChip
                        /\ IF espLoaderRef = 0
                             THEN Finish(t, rec, "threw", "ESP loader not initialized")
                             ELSE Continue(t, [rec EXCEPT !.ld = espLoaderRef, !.pc = "fn"])
                   ELSE /\ Finish(t, rec, "threw", "loader.main rejected")
                        /\ UNCHANGED chip
         ELSE /\ Finish(t, rec, "threw", "loader.main rejected")
              /\ UNCHANGED <<portOpen, connected, chip>>
  /\ UNCHANGED <<refs, isConnected, serialLib, plugged, locks, released, nextId,
                 stream, budget, callersSerialize, helper, prefsData, firmware>>

\* The flashing capability works while its transport holds the open port.
LoaderAlive(ld) == ld \in connected /\ plugged /\ portOpen

FnSettled_NoFinally(t, rec, fnErr) ==
  IF fnErr # ""
    THEN /\ Finish(t, [rec EXCEPT !.fnErr = fnErr], "threw", fnErr)
         /\ UNCHANGED <<transportRef, espLoaderRef>>
    ELSE cleanupESPToolEntry(t, [rec EXCEPT !.fnErr = fnErr]) /\ UNCHANGED ui

\* fn has settled with error fnErr ("" when it returned): the finally block of
\* withESPTool starts with cleanupESPTool (line 184).
FnSettled(t, rec, fnErr) ==
  cleanupESPToolEntry(t, [rec EXCEPT !.fnErr = fnErr]) /\ UNCHANGED ui

\* `loader.eraseFlash()` settles (useFlashOperations.ts 15).
FnErase(t) ==
  /\ At(t, "fn") /\ tasks[t].op = "erase"
  /\ \E ok \in BOOLEAN :
       FnSettled(t, tasks[t],
                 IF ok /\ LoaderAlive(tasks[t].ld) THEN "" ELSE "eraseFlash rejected")
  /\ UNCHANGED <<portRef, writerRef, readerRef, conn, serialLib, plugged, portOpen,
                 locks, connected, released, nextId, stream, budget, callersSerialize, helper, prefsData, firmware>>

FnWrite_ResetsAnyway(t) ==
  /\ At(t, "fn") /\ tasks[t].op = "program"
  /\ LET rec == tasks[t] IN
     \E ev \in {"progress", "end", "reject"} :
       IF ev = "reject" \/ ~LoaderAlive(rec.ld) \/ rec.written >= ImageBlocks
         THEN /\ Continue(t, [rec EXCEPT !.pc = "fn_reset"])
              /\ UNCHANGED <<transportRef, espLoaderRef>>
         ELSE /\ progress' = ((rec.written + 1) * 100) \div ImageBlocks
              /\ Set(t, [rec EXCEPT !.written = @ + 1])
              /\ UNCHANGED <<isErasing, isProgramming, isUpdating, isLoading, transportRef, espLoaderRef>>
  /\ UNCHANGED <<portRef, writerRef, readerRef, conn, serialLib, plugged, portOpen,
                 locks, connected, released, nextId, stream, budget, callersSerialize, helper, prefsData, firmware>>

\* `loader.writeFlash(..)` (useFlashOperations.ts 29-41) reports a block
\* written, ends, or rejects.
FnWrite(t) ==
  /\ At(t, "fn") /\ tasks[t].op = "program"
  /\ LET rec == tasks[t] IN
     \E ev \in {"progress", "end", "reject"} :
       IF ev = "reject" \/ ~LoaderAlive(rec.ld)
         THEN FnSettled(t, rec, "writeFlash rejected") /\ UNCHANGED progress
         ELSE IF rec.written < ImageBlocks
           THEN /\ progress' = ((rec.written + 1) * 100) \div ImageBlocks
                /\ Set(t, [rec EXCEPT !.written = @ + 1])
                /\ UNCHANGED <<isErasing, isProgramming, isUpdating, isLoading, transportRef, espLoaderRef>>
           ELSE /\ Continue(t, [rec EXCEPT !.pc = "fn_reset"])
                /\ UNCHANGED <<transportRef, espLoaderRef>>
  /\ UNCHANGED <<portRef, writerRef, readerRef, conn, serialLib, plugged, portOpen,
                 locks, connected, released, nextId, stream, budget, callersSerialize, helper, prefsData, firmware>>

\* `loader.after("hard_reset")` settles (useFlashOperations.ts 42).
FnReset(t) ==
  /\ At(t, "fn_reset")
  /\ \E ok \in BOOLEAN :
       IF ok /\ LoaderAlive(tasks[t].ld)
         THEN FnSettled(t, [tasks[t] EXCEPT !.reset = TRUE], "")
         ELSE FnSettled(t, tasks[t], "after rejected")
  /\ UNCHANGED <<portRef, writerRef, readerRef, conn, serialLib, plugged, portOpen,
                 locks, connected, released, nextId, stream, budget, callersSerialize, helper, prefsData, firmware>>

\* disconnect(), lines 124-126.
disconnectTail_KeepsPort(t, rec) ==
  /\ isConnected' = FALSE /\ chip' = NoChip
  /\ Finish(t, rec, "returned", "")
  /\ UNCHANGED portRef

disconnectTail(t, rec) ==
  /\ portRef' = 0 /\ isConnected' = FALSE /\ chip' = NoChip
  /\ IF rec.op = "handleDisconnect"
       THEN Continue(t, [rec EXCEPT !.pc = "hd_disconnected"])
       ELSE Finish(t, rec, "returned", "")

Cet_DropsPort(t) ==
  /\ At(t, "cet")
  /\ LET rec == tasks[t]
         closes == rec.ct # 0 /\ PortCloses
     IN /\ released' = IF rec.ct # 0 THEN released \cup {rec.ct} ELSE released
        /\ portOpen' = IF closes THEN FALSE ELSE portOpen
        /\ connected' = IF closes THEN {} ELSE connected \ {rec.ct}
        /\ IF closes
             THEN rxQueue' = <<>> /\ pendingReads' = <<>>
             ELSE UNCHANGED <<rxQueue, pendingReads>>
        /\ IF rec.op \in DisconnectOps
             THEN disconnectTail(t, rec)
             ELSE /\ Continue(t, [rec EXCEPT !.pc = "delay"])
                  /\ portRef' = 0
                  /\ UNCHANGED conn
  /\ UNCHANGED <<writerRef, readerRef, transportRef, espLoaderRef, serialLib, plugged,
                 locks, nextId, devInbox, budget, callersSerialize, helper, prefsData, firmware>>

\* `await transport.disconnect()` settles (line 85; skipped when no transport
\* was held): the transport closes the port, or rejects when it cannot, which
\* the catch of lines 86-88 swallows.  Then disconnect finishes (lines
\* 124-126) and withESPTool starts its post-flash delay (line 185).
Cet(t) ==
  /\ At(t, "cet")
  /\ LET rec == tasks[t]
         closes == rec.ct # 0 /\ PortCloses
         after == [rec EXCEPT !.swallowed = IF rec.ct = 0 \/ PortCloses THEN @
                                            ELSE @ \cup {"transport.disconnect"}]
     IN /\ released' = IF rec.ct # 0 THEN released \cup {rec.ct} ELSE released
        /\ portOpen' = IF closes THEN FALSE ELSE portOpen
        /\ connected' = IF closes THEN {} ELSE connected \ {rec.ct}
        /\ IF closes
             THEN rxQueue' = <<>> /\ pendingReads' = <<>>
             ELSE UNCHANGED <<rxQueue, pendingReads>>
        /\ IF rec.op \in DisconnectOps
             THEN disconnectTail(t, after)
             ELSE /\ Continue(t, [after EXCEPT !.pc = "delay"])
                  /\ UNCHANGED <<portRef, conn>>
  /\ UNCHANGED <<writerRef, readerRef, transportRef, espLoaderRef, serialLib, plugged,
                 locks, nextId, devInbox, budget, callersSerialize, helper, prefsData, firmware>>

\* utils/serial.ts 15-16.
POST_FLASH_DELAY_MS == 1000
POST_PROGRAM_DELAY_MS == 2000

\* The postDelay argument of withESPTool: the default for eraseFlash (line
\* 173), POST_PROGRAM_DELAY_MS for programFlash (useFlashOperations.ts 44).
postDelay(op) == IF op = "program" THEN POST_PROGRAM_DELAY_MS ELSE POST_FLASH_DELAY_MS

Delay_DefaultDelay(t) ==
  /\ At(t, "delay")
  /\ setupNativeSerialEntry(t, [tasks[t] EXCEPT !.waited = POST_FLASH_DELAY_MS])
  /\ UNCHANGED <<refs, conn, serialLib, plugged, portOpen, locks, connected, released,
                 nextId, stream, budget, callersSerialize, helper, prefsData, firmware>>

\* `await delay(postDelay)` ends (line 185); setupNativeSerial starts (186).
Delay(t) ==
  /\ At(t, "delay")
  /\ setupNativeSerialEntry(t, [tasks[t] EXCEPT !.waited = postDelay(tasks[t].op)])
  /\ UNCHANGED <<refs, conn, serialLib, plugged, portOpen, locks, connected, released,
                 nextId, stream, budget, callersSerialize, helper, prefsData, firmware>>

\* The caller has taken the result of a completed call.
Return(t) ==
  /\ tasks[t].pc = "done"
  /\ Set(t, IdleTask)
  /\ UNCHANGED <<refs, conn, ui, serialLib, plugged, portOpen, locks, connected,
                 released, nextId, stream, budget, callersSerialize, helper, prefsData, firmware>>

\* The device is unplugged: the port is gone, its streams fail.
Unplug ==
  /\ plugged /\ portRef # 0 /\ NoneDone
  /\ plugged' = FALSE /\ portOpen' = FALSE /\ connected' = {}
  /\ rxQueue' = <<>> /\ pendingReads' = <<>> /\ devInbox' = <<>>
  /\ UNCHANGED <<refs, conn, ui, serialLib, locks, released, nextId, tasks,
                 budget, callersSerialize, helper, prefsData, firmware>>


\* -------------------------------------- flattenObject and unflattenObject
\* JavaScript values: a string, number or boolean leaf, or an object, which is
\* the sequence of its entries in insertion order.
StringLeaf(text) ==
  [type |-> "string", text |-> text, num |-> 0, bool |-> FALSE, entries |-> <<>>]
NumberLeaf(n) ==
  [type |-> "number", text |-> <<>>, num |-> n, bool |-> FALSE, entries |-> <<>>]
BooleanLeaf(b) ==
  [type |-> "boolean", text |-> <<>>, num |-> 0, bool |-> b, entries |-> <<>>]
Obj(entries) ==
  [type |-> "object", text |-> <<>>, num |-> 0, bool |-> FALSE, entries |-> entries]
\* The numbers Infinity (sign 1) and -Infinity (sign -1).
InfinityLeaf(sign) ==
  [type |-> "infinity", text |-> <<>>, num |-> sign, bool |-> FALSE, entries |-> <<>>]
\* A call that ended in a TypeError instead of a value.
TypeError ==
  [type |-> "TypeError", text |-> <<>>, num |-> 0, bool |-> FALSE, entries |-> <<>>]

DigitChars == <<"0", "1", "2", "3", "4", "5", "6", "7", "8", "9">>
IsDigit(ch) == \E d \in 1..Len(DigitChars) : DigitChars[d] = ch
DigitValue(ch) == (CHOOSE d \in 1..Len(DigitChars) : DigitChars[d] = ch) - 1

RECURSIVE NatText(_)
NatText(n) ==
  IF n < Len(DigitChars) THEN <<DigitChars[n + 1]>>
  ELSE NatText(n \div Len(DigitChars)) \o <<DigitChars[(n % Len(DigitChars)) + 1]>>

RECURSIVE DigitsValue(_)
DigitsValue(s) ==
  IF s = <<>> THEN 0
  ELSE DigitsValue(SubSeq(s, 1, Len(s) - 1)) * Len(DigitChars) + DigitValue(s[Len(s)])

INFINITY == <<"I", "n", "f", "i", "n", "i", "t", "y">>

\* String(value) of a leaf (line 41).
StringOf(v) ==
  CASE v.type = "string" -> v.text
    [] v.type = "number" -> IF v.num < 0 THEN <<"-">> \o NatText(-v.num) ELSE NatText(v.num)
    [] v.type = "boolean" -> IF v.bool THEN <<"t", "r", "u", "e">>
                                       ELSE <<"f", "a", "l", "s", "e">>
    [] v.type = "infinity" -> IF v.num < 0 THEN <<"-">> \o INFINITY ELSE INFINITY

\* Number(value) of a string (line 60), for strings of signs, decimal digits,
\* white space and letters: white space is trimmed, the empty string is 0, an
\* optionally signed run of digits is its value, an optionally signed
\* 'Infinity' is that infinity (inf: its sign), anything else is NaN.
NumberOf(text) ==
  LET s == Trim(text)
      signed == s # <<>> /\ s[1] \in {"-", "+"}
      digits == IF signed THEN Tail(s) ELSE s
      sign == IF s # <<>> /\ s[1] = "-" THEN -1 ELSE 1
  IN IF s = <<>> THEN [nan |-> FALSE, n |-> 0, inf |-> 0]
     ELSE IF digits # <<>> /\ \A i \in 1..Len(digits) : IsDigit(digits[i])
       THEN [nan |-> FALSE, n |-> sign * DigitsValue(digits), inf |-> 0]
     ELSE IF digits = INFINITY THEN [nan |-> FALSE, n |-> 0, inf |-> sign]
       ELSE [nan |-> TRUE, n |-> 0, inf |-> 0]

\* Property access on the entries of an object.
HasProp(entries, key) == \E i \in 1..Len(entries) : entries[i].key = key
GetProp(entries, key) == entries[CHOOSE i \in 1..Len(entries) : entries[i].key = key].val
SetProp(entries, key, val) ==
  IF HasProp(entries, key)
    THEN [i \in 1..Len(entries) |->
            IF entries[i].key = key THEN [key |-> key, val |-> val] ELSE entries[i]]
    ELSE Append(entries, [key |-> key, val |-> val])

\* Object.assign(target, source) (line 39).
RECURSIVE ObjectAssign(_, _)
ObjectAssign(target, source) ==
  IF source = <<>> THEN target
  ELSE ObjectAssign(SetProp(target, Head(source).key, Head(source).val), Tail(source))

\* flattenObject (lines 32-45); flattenEntries is its loop over the entries
\* still to visit, with the result so far.
RECURSIVE flattenObject(_, _)
RECURSIVE flattenEntries(_, _, _)
flattenEntries(entries, prefix, result) ==
  IF entries = <<>> THEN result
  ELSE LET key == Head(entries).key
           value == Head(entries).val
           fullKey == IF prefix # <<>> THEN prefix \o <<".">> \o key ELSE key
       IN flattenEntries(Tail(entries), prefix,
            IF value.type = "object"
              THEN ObjectAssign(result, flattenObject(value, fullKey))
              ELSE SetProp(result, fullKey, StringOf(value)))

flattenObject(obj, prefix) ==
  IF obj.type # "object" THEN <<>> ELSE flattenEntries(obj.entries, prefix, <<>>)

\* key.split(".") (line 51).
RECURSIVE split(_)
split(key) ==
  IF \E i \in 1..Len(key) : key[i] = "."
    THEN LET i == CHOOSE i \in 1..Len(key) :
                    key[i] = "." /\ \A j \in 1..(i - 1) : key[j] # "."
         IN <<SubSeq(key, 1, i - 1)>> \o split(SubSeq(key, i + 1, Len(key)))
    ELSE <<key>>

\* Lines 54-61 for one flat entry: walk the parts down from `current`,
\* creating the objects that are missing, and assign the leaf at the last
\* part. Writing a property of a string, number or boolean throws (module
\* code is strict).
RECURSIVE setPath(_, _, _)
setPath(current, parts, leaf) ==
  IF current.type # "object" THEN TypeError
  ELSE IF Len(parts) = 1 THEN Obj(SetProp(current.entries, parts[1], leaf))
  ELSE LET part == Head(parts)
           child == IF HasProp(current.entries, part)
                      THEN GetProp(current.entries, part) ELSE Obj(<<>>)
           below == setPath(child, Tail(parts), leaf)
       IN IF below.type = "TypeError" THEN TypeError
          ELSE Obj(SetProp(current.entries, part, below))

\* Lines 60-61: the value of a flat entry, as a number when Number() takes it.
leafOf(value) ==
  LET numValue == NumberOf(value) IN
  IF ~numValue.nan /\ Trim(value) # <<>>
    THEN IF numValue.inf # 0 THEN InfinityLeaf(numValue.inf) ELSE NumberLeaf(numValue.n)
    ELSE StringLeaf(value)

\* unflattenObject (lines 47-65), from the result so far.
RECURSIVE unflattenEntries(_, _)
unflattenEntries(flat, result) ==
  IF flat = <<>> \/ result.type = "TypeError" THEN result
  ELSE unflattenEntries(Tail(flat),
         setPath(result, split(Head(flat).key), leafOf(Head(flat).val)))

unflattenObject(flat) == unflattenEntries(flat, Obj(<<>>))


\* ------------------------------------------------------- command protocol
Commands == {GET_PREFS, GET_PREF_KEYS}

\* What the device may send in reply to a command line.
Payload == <<"{", "}">>
Frame(command) == command \o RESPONSE \o <<" ">> \o Payload \o <<" ">> \o END \o <<"\n">>
Shapes == {"silent", "valid", "split", "error"}
ChunksOf(shape, command) ==
  CASE shape = "silent" -> <<>>
    [] shape = "valid" -> <<Frame(command)>>
    [] shape = "split" -> <<command \o RESPONSE, <<" ">> \o Payload \o <<" ">> \o END \o <<"\n">>>>
    [] shape = "error" -> <<ERROR \o <<" ", "b", "a", "d", "\n">>>>

sendCommandEntry_RetriesThrow(t, rec) ==
  IF writerRef = 0 \/ readerRef = 0
    THEN IF rec.attempt < MAX_RETRIES
           THEN Continue(t, [rec EXCEPT !.pc = "retry_delay"])
           ELSE Finish(t, rec, "threw", "Serial connection not established")
    ELSE Continue(t, [rec EXCEPT !.lw = writerRef, !.lr = readerRef, !.sends = @ + 1,
                                 !.sent = Append(@, "nothing"), !.response = <<>>,
                                 !.touched = TRUE, !.pc = "sc_write"])

\* sendCommand(command), lines 130-137, up to `await writer.write(..)`.
sendCommandEntry(t, rec) ==
  IF writerRef = 0 \/ readerRef = 0
    THEN Finish(t, rec, "threw", "Serial connection not established")
    ELSE Continue(t, [rec EXCEPT !.lw = writerRef, !.lr = readerRef, !.sends = @ + 1,
                                 !.sent = Append(@, "nothing"), !.response = <<>>,
                                 !.touched = TRUE, !.pc = "sc_write"])

sendCommandReturns_OneMore(t, rec, text) ==
  LET r == [rec EXCEPT !.log = Append(@, text)] IN
  IF text # <<>> /\ hasValidResponse(text, rec.cmd)
    THEN Finish(t, [r EXCEPT !.result = text], "returned", "")
    ELSE IF rec.attempt <= MAX_RETRIES
      THEN Continue(t, [r EXCEPT !.pc = "retry_delay"])
      ELSE Finish(t, r, "threw", "No valid response after 3 retries")

\* sendCommand returned text: sendCommandWithRetry, usePreferences 78-85.
sendCommandReturns(t, rec, text) ==
  LET r == [rec EXCEPT !.log = Append(@, text)] IN
  IF text # <<>> /\ hasValidResponse(text, rec.cmd)
    THEN Finish(t, [r EXCEPT !.result = text], "returned", "")
    ELSE IF rec.attempt < MAX_RETRIES
      THEN Continue(t, [r EXCEPT !.pc = "retry_delay"])
      ELSE Finish(t, r, "threw", "No valid response after 3 retries")

updateAllSettingsResumes_Retries(t, rec, text) ==
  IF Includes(text, ERROR)
    THEN IF rec.sends < 2
           THEN Continue(t, [rec EXCEPT !.sends = @ + 1, !.sent = Append(@, "nothing"),
                                        !.response = <<>>, !.pc = "sc_write"])
           ELSE Finish(t, rec, "threw", "Update failed")
    ELSE Finish(t, [rec EXCEPT !.log = Append(@, text),
                               !.result = extractResponse(text, rec.cmd)], "returned", "")

\* sendCommand returned text to updateAllSettings (usePreferences 147-150) or
\* to saveSettingsValues (123-126).
updateAllSettingsResumes(t, rec, text) ==
  IF Includes(text, ERROR)
    THEN Finish(t, rec, "threw", "Update failed")
    ELSE Finish(t, [rec EXCEPT !.log = Append(@, text),
                               !.result = extractResponse(text, rec.cmd)], "returned", "")

\* A JavaScript array: its items in order.
Arr(items) ==
  [type |-> "array", text |-> <<>>, num |-> 0, bool |-> FALSE, entries |-> items]

QUOTE == "\""

\* s is a JSON string literal without escapes; its characters.
IsJsonStringLiteral(s) ==
  /\ Len(s) >= 2 /\ s[1] = QUOTE /\ s[Len(s)] = QUOTE
  /\ \A i \in 2..(Len(s) - 1) : s[i] \notin {QUOTE, "\\", "\n"}
Unquoted(s) == SubSeq(s, 2, Len(s) - 1)

\* JSON.parse for the texts a preference store sends: an array of at most
\* one string, an object of at most one string key with a natural number,
\* each without white space; every other text is a SyntaxError here.
JSONParse(s) ==
  LET n == Len(s)
      inner == SubSeq(s, 2, n - 1)
      Colons == {i \in 1..Len(inner) : inner[i] = ":"}
  IN IF n >= 2 /\ s[1] = "[" /\ s[n] = "]"
       THEN IF inner = <<>> THEN [ok |-> TRUE, value |-> Arr(<<>>)]
            ELSE IF IsJsonStringLiteral(inner)
              THEN [ok |-> TRUE, value |-> Arr(<<StringLeaf(Unquoted(inner))>>)]
              ELSE [ok |-> FALSE, value |-> Arr(<<>>)]
     ELSE IF n >= 2 /\ s[1] = "{" /\ s[n] = "}"
       THEN IF inner = <<>> THEN [ok |-> TRUE, value |-> Obj(<<>>)]
            ELSE IF \E c \in Colons :
                      /\ IsJsonStringLiteral(SubSeq(inner, 1, c - 1))
                      /\ c < Len(inner)
                      /\ \A i \in (c + 1)..Len(inner) : IsDigit(inner[i])
              THEN LET c == CHOOSE x \in Colons :
                              /\ IsJsonStringLiteral(SubSeq(inner, 1, x - 1))
                              /\ x < Len(inner)
                              /\ \A i \in (x + 1)..Len(inner) : IsDigit(inner[i])
                   IN [ok |-> TRUE,
                       value |-> Obj(<<[key |-> Unquoted(SubSeq(inner, 1, c - 1)),
                                        val |-> NumberLeaf(DigitsValue(
                                                  SubSeq(inner, c + 1, Len(inner))))]>>)]
              ELSE [ok |-> FALSE, value |-> Obj(<<>>)]
     ELSE [ok |-> FALSE, value |-> Obj(<<>>)]

\* parseJson, usePreferences 24-30.
parseJson(content, fallback) ==
  IF JSONParse(content).ok THEN JSONParse(content).value ELSE fallback

\* keys.length (usePreferences 174): undefined, which is not > 0, for a value
\* that is neither an array nor a string.
LengthOf(v) ==
  CASE v.type = "array" -> Len(v.entries)
    [] v.type = "string" -> Len(v.text)
    [] OTHER -> 0

\* The key list as the settings panel holds it: the items of the array.
KeyList(v) == IF v.type = "array" THEN [i \in 1..Len(v.entries) |-> v.entries[i].text] ELSE <<>>

\* sendCommandWithRetry returned or threw inside initializeSettings
\* (usePreferences 169-182): the key list is stored as soon as it is parsed,
\* GET_PREFS is sent when it is not empty, the values are stored when that
\* request succeeds.
initializeSettingsResumes(t, rec, text) ==
  LET r == [rec EXCEPT !.log = Append(@, text)] IN
  IF text # <<>> /\ hasValidResponse(text, rec.cmd)
    THEN IF rec.cmd = GET_PREF_KEYS
      THEN LET keys == parseJson(extractResponse(text, GET_PREF_KEYS), Arr(<<>>)) IN
           /\ settingsKeys' = KeyList(keys)
           /\ UNCHANGED <<preferences, settingsValues>>
           /\ IF LengthOf(keys) > 0
                THEN sendCommandEntry(t, [r EXCEPT !.cmd = GET_PREFS, !.attempt = 1])
                ELSE Finish(t, r, "returned", "")
      ELSE LET parsed == parseJson(extractResponse(text, GET_PREFS), Obj(<<>>)) IN
           /\ settingsValues' = flattenObject(parsed, <<>>)
           /\ UNCHANGED <<preferences, settingsKeys>>
           /\ Finish(t, r, "returned", "")
    ELSE /\ UNCHANGED prefsData
         /\ IF rec.attempt < MAX_RETRIES
              THEN Continue(t, [r EXCEPT !.pc = "retry_delay"])
              ELSE Finish(t, r, "threw", "No valid response after 3 retries")

\* `await serial.sendCommand(..)` resumes in the caller of that sendCommand.
sendCommandResumes(t, rec, text) ==
  IF rec.op \in {"update", "save"}
    THEN updateAllSettingsResumes(t, rec, text) /\ UNCHANGED prefsData
    ELSE IF rec.op = "initializeSettings"
      THEN initializeSettingsResumes(t, rec, text)
      ELSE sendCommandReturns(t, rec, text) /\ UNCHANGED prefsData

\* sendCommandWithRetry(command), usePreferences 74-77: the first attempt.
SendCommandWithRetry(t) ==
  /\ CanStart(t)
  /\ commandsLeft > 0
  /\ commandsLeft' = commandsLeft - 1
  /\ opsStarted' = opsStarted + 1
  /\ \E command \in Commands :
       sendCommandEntry(t, [Begin(t, "retry") EXCEPT !.cmd = command, !.attempt = 1])
  /\ UNCHANGED <<refs, conn, serialLib, plugged, portOpen, locks, connected, released,
                 nextId, stream, callersSerialize, helper, prefsData, firmware>>

\* `await delay(RETRY_DELAY_MS)` ends (usePreferences 82): the next attempt.
RetryDelay(t) ==
  /\ At(t, "retry_delay")
  /\ sendCommandEntry(t, [tasks[t] EXCEPT !.attempt = @ + 1])
  /\ UNCHANGED <<refs, conn, serialLib, plugged, portOpen, locks, connected, released,
                 nextId, stream, budget, callersSerialize, helper, prefsData, firmware>>

\* `await writer.write(..)` settles (line 137): the device has the command
\* line; the read loop starts with its first reader.read() (lines 139-152).
\* A read on a reader whose lock was released rejects at once.
ScWrite(t) ==
  /\ At(t, "sc_write")
  /\ LET rec == tasks[t] IN
       IF plugged /\ portOpen /\ writerLock = rec.lw
         THEN /\ devInbox' = IF Len(devInbox) < MaxPending
                                THEN Append(devInbox, [task |-> t, attempt |-> rec.attempt,
                                                       cmd |-> rec.cmd,
                                                       line |-> rec.cmd \o <<"\n">>])
                                ELSE devInbox
              /\ pendingReads' = IF readerLock = rec.lr THEN Append(pendingReads, t)
                                 ELSE pendingReads
              /\ Continue(t, [rec EXCEPT !.pc = "sc_read"])
         ELSE /\ Finish(t, rec, "threw", "writer.write rejected")
              /\ UNCHANGED <<devInbox, pendingReads>>
  /\ UNCHANGED <<refs, conn, serialLib, plugged, portOpen, locks, connected, released,
                 nextId, rxQueue, budget, callersSerialize, helper, prefsData, firmware>>

ScRead_UntilDeadline(t) ==
  /\ At(t, "sc_read")
  /\ pendingReads # <<>> /\ Head(pendingReads) = t
  /\ rxQueue # <<>>
  /\ rxQueue' = Tail(rxQueue)
  /\ LET rec == tasks[t]
         text == rec.response \o Head(rxQueue).text
     IN \E expired \in BOOLEAN :
          IF expired
            THEN /\ pendingReads' = Tail(pendingReads)
                 /\ sendCommandResumes(t, rec, Trim(text))
            ELSE /\ pendingReads' = Append(Tail(pendingReads), t)
                 /\ Continue(t, [rec EXCEPT !.response = text])
                 /\ UNCHANGED prefsData
  /\ UNCHANGED <<refs, conn, serialLib, plugged, portOpen, locks, connected, released,
                 nextId, devInbox, budget, callersSerialize, helper, firmware>>

\* reader.read() wins the race with a chunk (lines 152-159): the text grows;
\* the loop ends on END or ERROR, or when the deadline has passed at the loop
\* head (line 142), and issues the next read otherwise.
ScRead(t) ==
  /\ At(t, "sc_read")
  /\ pendingReads # <<>> /\ Head(pendingReads) = t
  /\ rxQueue # <<>>
  /\ rxQueue' = Tail(rxQueue)
  /\ LET rec == tasks[t]
         text == rec.response \o Head(rxQueue).text
     IN \E expired \in BOOLEAN :
          IF Includes(text, END) \/ Includes(text, ERROR) \/ expired
            THEN /\ pendingReads' = Tail(pendingReads)
                 /\ sendCommandResumes(t, rec, Trim(text))
            ELSE /\ pendingReads' = Append(Tail(pendingReads), t)
                 /\ Continue(t, [rec EXCEPT !.response = text])
                 /\ UNCHANGED prefsData
  /\ UNCHANGED <<refs, conn, serialLib, plugged, portOpen, locks, connected, released,
                 nextId, devInbox, budget, callersSerialize, helper, firmware>>

\* The read ends without a chunk (cancelled reader: done, line 155; failed
\* stream: rejected, lines 160-162): sendCommand returns what it has.
ScReadEnds(t) ==
  /\ At(t, "sc_read")
  /\ \A i \in 1..Len(pendingReads) : pendingReads[i] # t
  /\ sendCommandResumes(t, tasks[t], Trim(tasks[t].response))
  /\ UNCHANGED <<refs, conn, serialLib, plugged, portOpen, locks, connected, released,
                 nextId, stream, budget, callersSerialize, helper, firmware>>

TimerWins_Never(t) == FALSE

\* The timer of line 147 settles the race of line 152 while the read of task
\* t is pending and no chunk is waiting to be delivered.
TimerWins(t) ==
  /\ tasks[t].pc = "sc_read"
  /\ \E i \in 1..Len(pendingReads) : pendingReads[i] = t
  /\ rxQueue = <<>>

ScTimeout_DropsReader(t) ==
  /\ NoneDone /\ TimerWins(t)
  /\ pendingReads' = [i \in 1..Len(pendingReads) |->
                        IF pendingReads[i] = t THEN 0 ELSE pendingReads[i]]
  /\ readerRef' = 0
  /\ sendCommandResumes(t, tasks[t], Trim(tasks[t].response))
  /\ UNCHANGED <<portRef, writerRef, transportRef, espLoaderRef, conn, serialLib, plugged,
                 portOpen, locks, connected, released, nextId, rxQueue, devInbox, budget,
                 callersSerialize, helper, firmware>>

\* The deadline timer wins the race (lines 147-155): sendCommand returns what
\* it has; the read it issued stays pending on the reader (0: abandoned).  The
\* timer cannot win while a chunk is waiting to be delivered.
ScTimeout(t) ==
  /\ NoneDone /\ TimerWins(t)
  /\ pendingReads' = [i \in 1..Len(pendingReads) |->
                        IF pendingReads[i] = t THEN 0 ELSE pendingReads[i]]
  /\ sendCommandResumes(t, tasks[t], Trim(tasks[t].response))
  /\ UNCHANGED <<refs, conn, serialLib, plugged, portOpen, locks, connected, released,
                 nextId, rxQueue, devInbox, budget, callersSerialize, helper, firmware>>

\* The stream fulfils the oldest pending read; when that read was abandoned by
\* its sendCommand, the chunk goes to nobody.
AbandonedRead ==
  /\ NoneDone
  /\ pendingReads # <<>> /\ Head(pendingReads) = 0
  /\ rxQueue # <<>>
  /\ rxQueue' = Tail(rxQueue)
  /\ pendingReads' = Tail(pendingReads)
  /\ UNCHANGED <<refs, conn, ui, serialLib, plugged, portOpen, locks, connected,
                 released, nextId, devInbox, tasks, budget, callersSerialize, helper, prefsData, firmware>>

\* The chunks the stream holds for the reader, each with the write (task and
\* attempt) the device sent it in reply to.
Received(chunks, c) ==
  [i \in 1..Len(chunks) |-> [text |-> chunks[i], task |-> c.task, attempt |-> c.attempt]]

\* The device answers (or ignores) the oldest command line it holds.  `sent`
\* notes, per attempt, what was sent while that attempt was reading.
DeviceReply ==
  /\ NoneDone
  /\ devInbox # <<>>
  /\ plugged /\ portOpen
  /\ LET c == Head(devInbox) IN
     \E shape \in Shapes :
       /\ Len(rxQueue) + Len(ChunksOf(shape, c.cmd)) <= MaxRx
       /\ rxQueue' = rxQueue \o Received(ChunksOf(shape, c.cmd), c)
       /\ devInbox' = Tail(devInbox)
       /\ tasks' = IF tasks[c.task].pc = "sc_read" /\ tasks[c.task].attempt = c.attempt
                     THEN [tasks EXCEPT ![c.task].sent[c.attempt] = shape]
                     ELSE tasks
  /\ UNCHANGED <<refs, conn, ui, serialLib, plugged, portOpen, locks, connected,
                 released, nextId, pendingReads, budget, callersSerialize, helper, prefsData, firmware>>

Next ==
  \/ \E t \in Tasks :
       \/ Connect(t) \/ Disconnect(t) \/ EraseFlash(t) \/ ProgramFlash(t)
       \/ SnsRequest(t) \/ SnsOpen(t)
       \/ CnsCancel(t) \/ CnsClose(t) \/ CnsRet(t)
       \/ Main(t) \/ FnErase(t) \/ FnWrite(t) \/ FnReset(t)
       \/ Cet(t) \/ Delay(t) \/ Return(t)
       \/ SendCommandWithRetry(t) \/ RetryDelay(t)
       \/ ScWrite(t) \/ ScRead(t) \/ ScReadEnds(t) \/ ScTimeout(t)
  \/ AbandonedRead \/ DeviceReply \/ Unplug

Spec == Init /\ [][Next]_vars

\* Spec with the scheduling the runtime guarantees: a settled promise resumes
\* its awaiter (the caller takes a result, a read gets its chunk or its end),
\* the deadline timer of sendCommand fires, and the stream hands a waiting chunk
\* to the oldest pending read.
Resumes ==
  \/ \E t \in Tasks : Return(t) \/ ScRead(t) \/ ScReadEnds(t) \/ ScTimeout(t)
  \/ AbandonedRead

\* The states in which Resumes can take a step.
ResumesEnabled ==
  \/ \E t \in Tasks : tasks[t].pc = "done"
  \/ /\ NoneDone
     /\ \/ \E t \in Tasks :
             /\ tasks[t].pc = "sc_read"
             /\ \/ \A i \in 1..Len(pendingReads) : pendingReads[i] # t
                \/ TimerWins(t)
                \/ rxQueue # <<>> /\ Head(pendingReads) = t
        \/ pendingReads # <<>> /\ Head(pendingReads) = 0 /\ rxQueue # <<>>

\* Weak fairness of Resumes, with its enabling condition written out.
Fairness == []<>(~ResumesEnabled) \/ []<><<Resumes>>_vars

SpecFair == Init /\ [][Next]_vars /\ Fairness

\* The same hooks under callers that do not serialize their calls, from the
\* state a first connect() leaves.
InitOverlap ==
  /\ isConnected = TRUE /\ chip = NativeChip
  /\ portRef = 1 /\ writerRef = 1 /\ readerRef = 2
  /\ transportRef = 0 /\ espLoaderRef = 0
  /\ isErasing = FALSE /\ isProgramming = FALSE /\ progress = 0
  /\ isUpdating = FALSE /\ AppIdle
  /\ serialLib = TRUE
  /\ plugged = TRUE /\ portOpen = TRUE
  /\ readerLock = 2 /\ writerLock = 1
  /\ connected = {} /\ released = {} /\ nextId = 3
  /\ rxQueue = <<>> /\ pendingReads = <<>> /\ devInbox = <<>>
  /\ tasks = [t \in Tasks |-> IdleTask]
  /\ opsStarted = 1 /\ commandsLeft = MaxRetryCalls
  /\ callersSerialize = FALSE
  /\ helperIn = <<>> /\ helperOut = <<>>

SpecOverlap == InitOverlap /\ [][Next]_vars

\* ------------------------------------------------ response parsing, alone
\* Every session variable keeps its initial value; only the helper call moves.
SessionIdle ==
  /\ isConnected = FALSE /\ chip = NoChip
  /\ portRef = 0 /\ writerRef = 0 /\ readerRef = 0
  /\ transportRef = 0 /\ espLoaderRef = 0
  /\ isErasing = FALSE /\ isProgramming = FALSE /\ progress = 0
  /\ isUpdating = FALSE /\ AppIdle
  /\ serialLib = TRUE
  /\ plugged = TRUE /\ portOpen = FALSE
  /\ readerLock = 0 /\ writerLock = 0
  /\ connected = {} /\ released = {} /\ nextId = 1
  /\ rxQueue = <<>> /\ pendingReads = <<>> /\ devInbox = <<>>
  /\ tasks = [t \in Tasks |-> IdleTask]
  /\ opsStarted = 0 /\ commandsLeft = MaxRetryCalls
  /\ callersSerialize = TRUE

session == <<refs, conn, ui, serialLib, plugged, portOpen, locks, connected, released,
             nextId, stream, tasks, budget, callersSerialize, prefsData, firmware>>

\* Commands and payloads the parsing is tried on: the two GET commands, and a
\* command with a regular-expression special character in it.
DottedCommand == <<"A", ".", "B">>
ParsedCommands == {GET_PREFS, DottedCommand}
Fragments == {<<"{", "a", "}">>, <<"S", "E", "N", "D">>, <<" ">>, <<"x">>, <<"\n">>}
MaxFragments == 2
RECURSIVE Payloads(_)
Payloads(n) ==
  IF n = 0 THEN {<<>>}
  ELSE Payloads(n - 1) \cup {p \o f : p \in Payloads(n - 1), f \in Fragments}

\* The command with every "." replaced by "x": text the unescaped pattern
\* would take for the command's echo.
Lookalike(command) ==
  [i \in 1..Len(command) |-> IF command[i] = "." THEN "x" ELSE command[i]]

TextKinds == {"framed", "error", "unterminated", "lookalike"}
ResponseText(kind, c, p) ==
  CASE kind = "framed" -> c \o RESPONSE \o <<" ">> \o p \o <<" ">> \o END
    [] kind = "error" -> ERROR \o <<" ">> \o p
    [] kind = "unterminated" -> c \o RESPONSE \o <<" ">> \o p
    [] kind = "lookalike" -> Lookalike(c) \o RESPONSE \o <<" ">> \o p \o <<" ">> \o END

InitFrame ==
  /\ SessionIdle
  /\ helperIn \in {<<[kind |-> k, command |-> c, payload |-> p,
                      text |-> ResponseText(k, c, p)]>> :
                     k \in TextKinds, c \in ParsedCommands, p \in Payloads(MaxFragments)}
  /\ helperOut = <<>>

\* hasValidResponse(text, command), as sendCommandWithRetry applies it to a
\* response (line 78), and extractResponse(text, command), as fetchPreferences
\* applies it to the response it was given (line 95).
ParseResponse ==
  /\ helperIn # <<>> /\ helperOut = <<>>
  /\ helperOut' = <<[valid |-> hasValidResponse(helperIn[1].text, helperIn[1].command),
                     response |-> extractResponse(helperIn[1].text, helperIn[1].command)]>>
  /\ UNCHANGED <<session, helperIn>>

NextFrame == ParseResponse

SpecFrame == InitFrame /\ [][NextFrame]_vars

\* ------------------------------------------------------ the round trip
\* The nested objects the round trip is tried on.
MaxKeys == 2
MaxNestedKeys == 1
Keys == {<<"a">>, <<"b">>, <<"a", ".", "b">>}
Leaves ==
  {StringLeaf(t) : t \in {<<"x">>, <<"1", "2">>, <<" ", "7">>, <<>>, <<" ">>, INFINITY}}
    \cup {NumberLeaf(n) : n \in {0, 12, -5}}
    \cup {BooleanLeaf(TRUE)}
EntrySeqs(values, width) ==
  UNION {{es \in [1..n -> [key : Keys, val : values]] :
            \A i, j \in 1..n : i # j => es[i].key # es[j].key} : n \in 1..width}
NestedObjects == {Obj(es) : es \in EntrySeqs(Leaves, MaxNestedKeys)}
Objects == {Obj(es) : es \in EntrySeqs(Leaves \cup NestedObjects, MaxKeys)}

InitMapper ==
  /\ SessionIdle
  /\ helperIn \in {<<x>> : x \in Objects}
  /\ helperOut = <<>>

\* initializeSettings flattens what the device reported (line 178) ...
Flatten ==
  /\ helperIn # <<>> /\ helperOut = <<>>
  /\ helperOut' = <<flattenObject(helperIn[1], <<>>)>>
  /\ UNCHANGED <<session, helperIn>>

\* ... and saveSettingsValues unflattens it to send it back (line 122).
Unflatten ==
  /\ Len(helperOut) = 1
  /\ helperOut' = Append(helperOut, unflattenObject(helperOut[1]))
  /\ UNCHANGED <<session, helperIn>>

NextMapper == Flatten \/ Unflatten

SpecMapper == InitMapper /\ [][NextMapper]_vars

\* --------------------------------------------- commands only, overlapping
\* JSON.parse (usePreferences 139), for texts of digits, braces, letters and
\* white space: a number without a leading zero, or an object without
\* members, white space around either.
IsJsonNumber(s) ==
  LET digits == IF s # <<>> /\ s[1] = "-" THEN Tail(s) ELSE s IN
  /\ digits # <<>>
  /\ \A i \in 1..Len(digits) : IsDigit(digits[i])
  /\ Len(digits) > 1 => digits[1] # "0"

IsEmptyObject(s) ==
  /\ Len(s) >= 2 /\ s[1] = "{" /\ s[Len(s)] = "}"
  /\ AllSpace(s, 2, Len(s) - 1)

JsonParses_Anything(text) == TRUE

JsonParses(text) ==
  LET s == Trim(text) IN IsJsonNumber(s) \/ IsEmptyObject(s)

SET_PREFS == <<"S", "E", "T", "_", "P", "R", "E", "F", "S">>

\* What the user may have typed into the preferences field.
PreferenceTexts ==
  {<<>>, <<" ", "\n">>, <<" ", "{", " ", "}">>, <<"1", "2">>,
   <<"{">>, <<"0", "1">>, <<"{", "x", "}">>}

\* updateAllSettings throws before its try block (usePreferences 135, 141):
\* no finally runs.
Rejected(t, rec, err) ==
  /\ Set(t, [rec EXCEPT !.pc = "done", !.outcome = "threw", !.err = err])
  /\ UNCHANGED ui

\* updateAllSettings(), usePreferences 133-146, up to `await
\* serial.sendCommand(..)`: the text is validated before isUpdating is set.
UpdateAllSettings(t) ==
  /\ CanStart(t)
  /\ opsStarted' = opsStarted + 1
  /\ \E typed \in PreferenceTexts :
       LET rec == [Begin(t, "update") EXCEPT !.prefs = typed, !.cmd = SET_PREFS,
                                             !.attempt = 1]
       IN IF Trim(typed) = <<>>
            THEN Rejected(t, rec, "No preferences data")
            ELSE IF ~JsonParses(Trim(typed))
              THEN Rejected(t, rec, "Invalid JSON format")
              ELSE IF writerRef = 0 \/ readerRef = 0
                THEN sendCommandEntry(t, rec)
                ELSE /\ isUpdating' = TRUE
                     /\ UNCHANGED <<isErasing, isProgramming, progress, isLoading>>
                     /\ Set(t, [rec EXCEPT !.lw = writerRef, !.lr = readerRef,
                                           !.sends = @ + 1, !.sent = Append(@, "nothing"),
                                           !.touched = TRUE, !.pc = "sc_write"])
  /\ UNCHANGED <<refs, conn, serialLib, plugged, portOpen, locks, connected, released,
                 nextId, stream, commandsLeft, callersSerialize, helper, prefsData, firmware>>

\* settingsValues, the flat record the UI edits (usePreferences 70, 115-117).
SettingsValues ==
  {<<>>,
   <<[key |-> <<"a">>, val |-> <<"1", "2">>]>>,
   <<[key |-> <<"a">>, val |-> <<"x">>], [key |-> <<"a", ".", "b">>, val |-> <<"x">>]>>}

\* saveSettingsValues(), usePreferences 119-123, up to `await
\* serial.sendCommand(..)`; a throw of unflattenObject is inside the try block.
SaveSettingsValues(t) ==
  /\ CanStart(t)
  /\ opsStarted' = opsStarted + 1
  /\ \E edited \in SettingsValues :
       LET rec == [Begin(t, "save") EXCEPT !.cmd = SET_PREFS, !.attempt = 1]
       IN IF unflattenObject(edited).type = "TypeError"
            THEN Finish(t, rec, "threw", "TypeError")
            ELSE IF writerRef = 0 \/ readerRef = 0
              THEN sendCommandEntry(t, rec)
              ELSE /\ isUpdating' = TRUE
                   /\ UNCHANGED <<isErasing, isProgramming, progress, isLoading>>
                   /\ Set(t, [rec EXCEPT !.lw = writerRef, !.lr = readerRef,
                                         !.sends = @ + 1, !.sent = Append(@, "nothing"),
                                         !.touched = TRUE, !.pc = "sc_write"])
  /\ UNCHANGED <<refs, conn, serialLib, plugged, portOpen, locks, connected, released,
                 nextId, stream, commandsLeft, callersSerialize, helper, prefsData, firmware>>

\* Callers that only send commands, and do not wait for one to end before
\* they send the next, from the state a first connect() leaves; the device
\* stays plugged in.
InitCommands ==
  /\ isConnected = TRUE /\ chip = NativeChip
  /\ portRef = 1 /\ writerRef = 1 /\ readerRef = 2
  /\ transportRef = 0 /\ espLoaderRef = 0
  /\ isErasing = FALSE /\ isProgramming = FALSE /\ progress = 0
  /\ isUpdating = FALSE /\ AppIdle
  /\ serialLib = TRUE
  /\ plugged = TRUE /\ portOpen = TRUE
  /\ readerLock = 2 /\ writerLock = 1
  /\ connected = {} /\ released = {} /\ nextId = 3
  /\ rxQueue = <<>> /\ pendingReads = <<>> /\ devInbox = <<>>
  /\ tasks = [t \in Tasks |-> IdleTask]
  /\ opsStarted = 1 /\ commandsLeft = MaxRetryCalls
  /\ callersSerialize = FALSE
  /\ helperIn = <<>> /\ helperOut = <<>>

NextCommands ==
  \/ \E t \in Tasks :
       \/ UpdateAllSettings(t) \/ SaveSettingsValues(t)
       \/ SendCommandWithRetry(t) \/ RetryDelay(t)
       \/ ScWrite(t) \/ ScRead(t) \/ ScTimeout(t)
       \/ Return(t)
  \/ AbandonedRead \/ DeviceReply

SpecCommands == InitCommands /\ [][NextCommands]_vars

\* ------------------------------------------------------ the App's intents
\* onConnect (App.tsx 104-113): serial.connect(baudRate), up to its first await.
OnConnect(t) ==
  /\ CanStart(t)
  /\ opsStarted' = opsStarted + 1
  /\ setupNativeSerialEntry(t, Begin(t, "onConnect"))
  /\ UNCHANGED <<refs, conn, serialLib, plugged, portOpen, locks, connected, released,
                 nextId, stream, commandsLeft, callersSerialize, helper, prefsData, firmware>>

\* `await serial.connect(baudRate)` returned (App.tsx 106): initializeSettings
\* (usePreferences 166-169) sets isLoading and sends GET_PREF_KEYS.
InitializeSettings(t) ==
  /\ At(t, "oc_connected")
  /\ LET rec == [tasks[t] EXCEPT !.op = "initializeSettings", !.cmd = GET_PREF_KEYS,
                                 !.attempt = 1, !.preKeys = settingsKeys,
                                 !.preValues = settingsValues]
     IN IF writerRef = 0 \/ readerRef = 0
          THEN sendCommandEntry(t, rec)
          ELSE /\ isLoading' = TRUE
               /\ UNCHANGED <<isErasing, isProgramming, progress, isUpdating>>
               /\ Set(t, [rec EXCEPT !.lw = writerRef, !.lr = readerRef,
                                     !.sends = @ + 1, !.sent = Append(@, "nothing"),
                                     !.touched = TRUE, !.pc = "sc_write"])
  /\ UNCHANGED <<refs, conn, serialLib, plugged, portOpen, locks, connected, released,
                 nextId, stream, budget, callersSerialize, helper, prefsData, firmware>>

\* handleDisconnect (App.tsx 69-70): serial.disconnect(), up to its first await.
HandleDisconnect(t) ==
  /\ CanStart(t)
  /\ opsStarted' = opsStarted + 1
  /\ closeNativeSerialEntry(t, Begin(t, "handleDisconnect"))
  /\ UNCHANGED <<portRef, transportRef, espLoaderRef, conn, ui, serialLib, plugged,
                 portOpen, readerLock, connected, released, nextId, stream,
                 commandsLeft, callersSerialize, helper, prefsData, firmware>>

\* `await serial.disconnect()` returned: prefs.setPreferences("") (App.tsx 71).
ClearPreferences(t) ==
  /\ At(t, "hd_disconnected")
  /\ preferences' = <<>>
  /\ Finish(t, tasks[t], "returned", "")
  /\ UNCHANGED <<refs, conn, serialLib, plugged, portOpen, locks, connected, released,
                 nextId, stream, budget, callersSerialize, helper, settingsKeys,
                 settingsValues, firmware>>

\* The user types into the preferences field of a connected session
\* (setPreferences, usePreferences 67).
SetPreferences ==
  /\ isConnected /\ preferences = <<>>
  /\ \A t \in Tasks : tasks[t].pc = "idle"
  /\ preferences' = <<"{", "}">>
  /\ UNCHANGED <<refs, conn, ui, serialLib, plugged, portOpen, locks, connected, released,
                 nextId, stream, tasks, budget, callersSerialize, helper, settingsKeys,
                 settingsValues, firmware>>

\* What a device that stores preferences answers: its key list (it may have
\* none) to GET_PREF_KEYS, its values to GET_PREFS, in one chunk, or nothing.
StoredKeys == {<<"[", "]">>, <<"[", QUOTE, "a", QUOTE, "]">>}
StoredPrefs == {<<"{", QUOTE, "a", QUOTE, ":", "1", "}">>}
RepliesTo(command) ==
  {<<>>} \cup
  {<<command \o RESPONSE \o <<" ">> \o p \o <<" ">> \o END \o <<"\n">>>> :
     p \in IF command = GET_PREF_KEYS THEN StoredKeys ELSE StoredPrefs}

DeviceReplyPrefs ==
  /\ NoneDone
  /\ devInbox # <<>>
  /\ plugged /\ portOpen
  /\ LET c == Head(devInbox) IN
     \E reply \in RepliesTo(c.cmd) :
       /\ Len(rxQueue) + Len(reply) <= MaxRx
       /\ rxQueue' = rxQueue \o Received(reply, c)
       /\ devInbox' = Tail(devInbox)
  /\ UNCHANGED <<refs, conn, ui, serialLib, plugged, portOpen, locks, connected,
                 released, nextId, pendingReads, tasks, budget, callersSerialize, helper,
                 prefsData, firmware>>

\* runAsync (App.tsx 30-47) around an intent without a success message: the
\* alert is cleared at the start and set only when the intent throws.
alertAfter(rec, errorContext) ==
  IF rec.outcome = "threw" THEN <<errorContext, ": ", rec.err>> ELSE <<>>

\* The App's connect and disconnect intents, one at a time, from page load.
InitApp == SessionIdle /\ helperIn = <<>> /\ helperOut = <<>>

NextApp ==
  \/ \E t \in Tasks :
       \/ OnConnect(t) \/ SnsRequest(t) \/ SnsOpen(t) \/ InitializeSettings(t)
       \/ RetryDelay(t) \/ ScWrite(t) \/ ScRead(t) \/ ScReadEnds(t) \/ ScTimeout(t)
       \/ HandleDisconnect(t) \/ CnsCancel(t) \/ CnsClose(t) \/ CnsRet(t) \/ Cet(t)
       \/ ClearPreferences(t) \/ Return(t)
  \/ SetPreferences \/ AbandonedRead \/ DeviceReplyPrefs \/ Unplug

SpecApp == InitApp /\ [][NextApp]_vars

\* ------------------------------------------------------ useFirmwareLoader
\* The releases offered (data/releases), and the labels a caller may pass:
\* none, a release, or a label no release has.
Releases == {"A", "B"}
LabelInputs == {""} \cup Releases \cup {"?"}
FlashTypes == {"fw", "full"}

\* Line 22: image.bin for "fw", image-merged.bin otherwise; lines 27-28: the
\* file's bytes as a binary string.
ImageOf(label, type) == [label |-> label, type |-> type]

\* Line 55.
flashAddress == IF flashType = "fw" THEN 65536 ELSE 0

\* Two fetches of the same file are two loads: each has a number of its own.
FreshLoad == CHOOSE n \in 1..MaxLoads : \A l \in loads : l.id # n

\* loadFirmware(label, type), lines 12-24, up to `await fetch(...)`: the data is
\* dropped, and for a known release a fetch is in flight.
loadFirmwareEntry(label, type) ==
  /\ firmwareData' = NullImage
  /\ IF label = "" \/ label \notin Releases
       THEN UNCHANGED <<firmwareIsLoading, loads>>
       ELSE /\ firmwareIsLoading' = TRUE
            /\ loads' = loads \cup {[id |-> FreshLoad, label |-> label, type |-> type]}

\* selectFirmware(label), lines 36-42.
SelectFirmware(label) ==
  /\ Cardinality(loads) < MaxLoads
  /\ selectedLabel' = label
  /\ loadFirmwareEntry(label, flashType)
  /\ UNCHANGED <<flashType, refs, conn, ui, serialLib, plugged, portOpen, locks, connected,
                 released, nextId, stream, tasks, budget, callersSerialize, helper, prefsData>>

\* changeFlashType(type), lines 44-53.
ChangeFlashType(type) ==
  /\ Cardinality(loads) < MaxLoads
  /\ type # flashType
  /\ flashType' = type
  /\ IF selectedLabel # ""
       THEN loadFirmwareEntry(selectedLabel, type)
       ELSE UNCHANGED <<firmwareData, firmwareIsLoading, loads>>
  /\ UNCHANGED <<selectedLabel, refs, conn, ui, serialLib, plugged, portOpen, locks, connected,
                 released, nextId, stream, tasks, budget, callersSerialize, helper, prefsData>>

\* `await fetch(...)` of one load settles, lines 23-33: with the file, which
\* becomes the data, or not ok, which throws; either way isLoading is cleared.
FetchSettles(l, ok) ==
  /\ l \in loads
  /\ loads' = loads \ {l}
  /\ firmwareData' = IF ok THEN ImageOf(l.label, l.type) ELSE firmwareData
  /\ firmwareIsLoading' = FALSE
  /\ UNCHANGED <<selectedLabel, flashType, refs, conn, ui, serialLib, plugged, portOpen,
                 locks, connected, released, nextId, stream, tasks, budget,
                 callersSerialize, helper, prefsData>>

\* handleProgram (App.tsx 74-86) with data loaded: programFlash is called with
\* the data and the address of the flash type, up to its first await.
HandleProgram(t) ==
  /\ firmwareData # NullImage
  /\ CanStart(t)
  /\ opsStarted' = opsStarted + 1
  /\ isProgramming' = TRUE
  /\ progress' = 0
  /\ closeNativeSerialEntry(t, [Begin(t, "program") EXCEPT
                                  !.image = firmwareData, !.address = flashAddress])
  /\ UNCHANGED <<portRef, transportRef, espLoaderRef, conn, isErasing, isUpdating, isLoading,
                 serialLib, plugged, portOpen, readerLock, connected, released, nextId,
                 stream, commandsLeft, callersSerialize, helper, prefsData, firmware>>

\* The firmware panel's calls in any order, also while a load is in flight,
\* and the program intent, from page load.
InitFirmware == SessionIdle /\ helperIn = <<>> /\ helperOut = <<>>

NextFirmware ==
  \/ \E label \in LabelInputs : SelectFirmware(label)
  \/ \E type \in FlashTypes : ChangeFlashType(type)
  \/ \E l \in loads, ok \in BOOLEAN : FetchSettles(l, ok)
  \/ \E t \in Tasks : HandleProgram(t) \/ CnsRet(t) \/ Return(t)

SpecFirmware == InitFirmware /\ [][NextFirmware]_vars

\* ================================================================= claims
\* Session modes, told apart by what the hook holds.
NativeOpen ==
  /\ isConnected /\ portRef # 0
  /\ writerRef # 0 /\ writerLock = writerRef
  /\ readerRef # 0 /\ readerLock = readerRef
  /\ transportRef = 0 /\ espLoaderRef = 0

Disconnected ==
  /\ ~isConnected /\ chip = NoChip
  /\ portRef = 0 /\ writerRef = 0 /\ readerRef = 0
  /\ transportRef = 0 /\ espLoaderRef = 0

WasNativeOpen(pre) ==
  /\ pre.isConnected /\ pre.portRef # 0 /\ pre.writerRef # 0 /\ pre.readerRef # 0
  /\ pre.transportRef = 0 /\ pre.espLoaderRef = 0

FlashDone(t) == tasks[t].op \in FlashOps /\ tasks[t].pc = "done"

\* C1: after a flash session that started in NativeOpen mode has returned or
\* thrown, whichever step failed, the session is in NativeOpen mode again,
\* provided the device is still there to be opened.
C1_RestoredAfterFlashSession ==
  \A t \in Tasks :
    FlashDone(t) /\ WasNativeOpen(tasks[t].pre) /\ plugged => NativeOpen

\* C2: a flash operation invoked while another one is in flight is rejected
\* without touching the port (no close, open, transport bind or write).
C2_ReentrantRejected ==
  \A t \in Tasks :
    tasks[t].op \in FlashOps /\ tasks[t].reentrant => ~tasks[t].touched

\* The responses sendCommandWithRetry accepts.
ValidReply(text, command) == text # <<>> /\ hasValidResponse(text, command)

\* C3: sendCommandWithRetry makes at most 3 attempts; it returns the response
\* of the first attempt whose response is valid, after exactly that many
\* attempts, and after 3 invalid responses it throws 'No valid response after
\* 3 retries' without a 4th attempt.
C3_AtMostThreeAttempts ==
  \A t \in Tasks :
    LET r == tasks[t] IN
    r.op = "retry" =>
      /\ r.sends <= 3 /\ Len(r.log) <= r.sends
      /\ \A k \in 1..Len(r.log) :
           ValidReply(r.log[k], r.cmd) =>
             /\ k = Len(r.log) /\ r.sends = k
             /\ r.pc = "done" /\ r.outcome = "returned" /\ r.result = r.log[k]
      /\ r.pc = "done" /\ r.outcome = "returned" =>
           Len(r.log) >= 1 /\ ValidReply(r.log[Len(r.log)], r.cmd)
      /\ Len(r.log) = 3 /\ (\A k \in 1..3 : ~ValidReply(r.log[k], r.cmd)) =>
           /\ r.pc = "done" /\ r.outcome = "threw" /\ r.sends = 3
           /\ r.err = "No valid response after 3 retries"

C3_Witness ==
  \E t \in Tasks :
    /\ tasks[t].op = "retry" /\ tasks[t].pc = "done" /\ tasks[t].outcome = "threw"
    /\ tasks[t].sends = 3 /\ Len(tasks[t].log) = 3
    /\ tasks[t].log[1] = <<>> /\ tasks[t].log[3] # <<>>

\* C4: when the device is silent during one attempt and sends a well-formed
\* reply while a later attempt is reading, sendCommandWithRetry returns that
\* reply.
C4_RecoversFromSilence ==
  \A t \in Tasks :
    LET r == tasks[t] IN
    /\ r.op = "retry" /\ r.pc = "done" /\ plugged
    /\ \E j \in 2..Len(r.sent) :
         /\ r.sent[j] = "valid"
         /\ \A i \in 1..(j - 1) : r.sent[i] = "silent" /\ r.log[i] = <<>>
    => r.outcome = "returned" /\ r.result = Trim(Frame(r.cmd))

\* The handles the hook held when the call of task t started.
HeldBefore(t) == {tasks[t].pre.readerRef, tasks[t].pre.writerRef} \ {0}

\* C7 as stated: when fn throws, the session ends in NativeOpen mode with a
\* reader and a writer that were not held before the flash session.
C7_NativeOpenAfterFnThrows ==
  \A t \in Tasks :
    FlashDone(t) /\ tasks[t].fnErr # "" =>
      NativeOpen /\ readerRef \notin HeldBefore(t) /\ writerRef \notin HeldBefore(t)

\* C7, amended: when fn throws and the device is still there to be opened, the
\* session ends in NativeOpen mode; and whenever a flash session ends with
\* native handles held, they were not held before it.
C7_NativeOpenAfterFnThrowsIfPlugged ==
  \A t \in Tasks :
    FlashDone(t) =>
      /\ tasks[t].fnErr # "" /\ plugged => NativeOpen
      /\ readerRef # 0 => readerRef \notin HeldBefore(t)
      /\ writerRef # 0 => writerRef \notin HeldBefore(t)

C7_Witness ==
  \E t \in Tasks :
    /\ FlashDone(t) /\ tasks[t].fnErr # "" /\ WasNativeOpen(tasks[t].pre)
    /\ NativeOpen /\ tasks[t].outcome = "threw"

\* C8: every transport a flash session bound is released (disconnected, refs
\* cleared) by the time the call completes.
C8_TransportReleased ==
  \A t \in Tasks :
    FlashDone(t) =>
      /\ tasks[t].made \subseteq released
      /\ transportRef \notin tasks[t].made /\ espLoaderRef \notin tasks[t].made

\* C9: a connect() that fails leaves the session as it was: not connected, no
\* chip, no reader or writer.
C9_FailedConnectStaysDisconnected ==
  \A t \in Tasks :
    LET r == tasks[t] IN
    /\ r.op = "connect" /\ r.pc = "done"
    /\ ~r.pre.isConnected /\ r.pre.chip = NoChip
    /\ r.pre.readerRef = 0 /\ r.pre.writerRef = 0
    => /\ r.outcome = "threw" <=> r.err # ""
       /\ r.outcome = "threw" =>
            ~isConnected /\ chip = NoChip /\ readerRef = 0 /\ writerRef = 0
       /\ r.outcome = "returned" => isConnected /\ readerRef # 0 /\ writerRef # 0

C9_Witness ==
  \E t \in Tasks :
    /\ tasks[t].op = "connect" /\ tasks[t].pc = "done"
    /\ tasks[t].err = "port.open rejected"
    /\ tasks[t].pre = NoSnapshot

\* C10: disconnect() from any mode returns with the session Disconnected, and
\* from Disconnected it changes nothing and touches no port.
C10_DisconnectEndsDisconnected ==
  \A t \in Tasks :
    LET r == tasks[t] IN
    r.op = "disconnect" /\ r.pc = "done" =>
      /\ r.outcome = "returned" /\ Disconnected
      /\ r.pre = NoSnapshot => Snapshot = r.pre /\ ~r.touched

C10_Witness ==
  \E t \in Tasks :
    /\ tasks[t].op = "disconnect" /\ tasks[t].pc = "done"
    /\ tasks[t].pre = NoSnapshot /\ nextId > 1

\* A '<c>:RESPONSE ... END' frame: the command's echo, and the terminal marker
\* somewhere after it.
HasFrame(text, c) ==
  \E i \in 1..Len(text), j \in 1..Len(text) :
    /\ IsAt(text, c \o RESPONSE, i) /\ IsAt(text, END, j)
    /\ j >= i + Len(c) + Len(RESPONSE)

\* C6: for the text c + ':RESPONSE ' + p + ' END', hasValidResponse is true and
\* extractResponse returns exactly p trimmed; for a text with no
\* '<c>:RESPONSE ... END' frame, hasValidResponse is false.
C6_FramedResponseParsed ==
  helperOut # <<>> =>
    LET in == helperIn[1]  out == helperOut[1] IN
    /\ in.kind = "framed" => out.valid /\ out.response = Trim(in.payload)
    /\ ~HasFrame(in.text, in.command) => ~out.valid

\* A string leaf that parses in full as a finite number.
ParsesAsNumber(text) ==
  ~NumberOf(text).nan /\ NumberOf(text).inf = 0 /\ Trim(text) # <<>>

\* x with every such string leaf replaced by its number.
RECURSIVE Coerced(_)
Coerced(v) ==
  CASE v.type = "string" /\ ParsesAsNumber(v.text) -> NumberLeaf(NumberOf(v.text).n)
    [] v.type = "object" ->
         Obj([i \in 1..Len(v.entries) |->
                [key |-> v.entries[i].key, val |-> Coerced(v.entries[i].val)]])
    [] OTHER -> v

\* A value with the order of its entries forgotten.
RECURSIVE Unordered(_)
Unordered(v) ==
  [type |-> v.type, text |-> v.text, num |-> v.num, bool |-> v.bool,
   fields |-> [k \in {v.entries[i].key : i \in 1..Len(v.entries)} |->
                 Unordered(GetProp(v.entries, k))]]

\* C5: unflattenObject(flattenObject(x)) is x, up to string leaves that parse
\* as numbers coming back as numbers.
C5_RoundTrip ==
  Len(helperOut) = 2 => Unordered(helperOut[2]) = Unordered(Coerced(helperIn[1]))

\* The preference texts that are JSON.
JsonTexts == {<<" ", "{", " ", "}">>, <<"1", "2">>}

\* C11: updateAllSettings() with a text that is empty or not JSON throws 'No
\* preferences data' / 'Invalid JSON format' in the step it is called in,
\* without a sendCommand and with every other part of the state unchanged.
C11_InvalidPreferencesRejected ==
  [][\A t \in Tasks :
       /\ tasks[t].pc = "idle" /\ tasks'[t].op = "update"
       /\ tasks'[t].prefs \notin JsonTexts
       => /\ tasks'[t].pc = "done" /\ tasks'[t].outcome = "threw"
          /\ tasks'[t].err = IF Trim(tasks'[t].prefs) = <<>> THEN "No preferences data"
                             ELSE "Invalid JSON format"
          /\ tasks'[t].sends = 0 /\ ~tasks'[t].touched
          /\ isUpdating' = isUpdating
          /\ UNCHANGED <<refs, conn, isErasing, isProgramming, progress, locks, stream,
                         portOpen, plugged, connected, released, nextId>>]_vars

C11_Witness ==
  \E t \in Tasks :
    /\ tasks[t].op = "update" /\ tasks[t].pc = "done"
    /\ tasks[t].err = "Invalid JSON format" /\ tasks[t].prefs = <<"{", "x", "}">>
    /\ isConnected /\ writerRef # 0

\* C12: once eraseFlash() has completed isErasing is false, once programFlash()
\* has completed isProgramming is false and progress is 0, however the flash
\* session ended; while the operation is in flight its busy flag is true.
C12_BusyStateRestored ==
  \A t \in Tasks :
    /\ tasks[t].op = "erase" /\ tasks[t].pc = "done" => ~isErasing
    /\ tasks[t].op = "program" /\ tasks[t].pc = "done" => ~isProgramming /\ progress = 0
    /\ tasks[t].op = "erase" /\ FlashInFlight(t) => isErasing
    /\ tasks[t].op = "program" /\ FlashInFlight(t) => isProgramming

C12_Witness ==
  \E t \in Tasks :
    /\ tasks[t].op = "program" /\ tasks[t].pc = "done" /\ tasks[t].outcome = "threw"
    /\ tasks[t].written > 0 /\ tasks[t].fnErr = "writeFlash rejected"

\* C13: while programFlash is in flight progress is written/total*100, within
\* 0..100 (so it starts at 0 and never decreases); once it has completed, also
\* after a throw, isProgramming is false and the session, started in NativeOpen
\* mode with the device still there, is in NativeOpen mode.
C13_ProgressThenNativeOpen ==
  \A t \in Tasks :
    tasks[t].op = "program" =>
      /\ FlashInFlight(t) =>
           /\ isProgramming
           /\ progress = (tasks[t].written * 100) \div ImageBlocks
           /\ progress \in 0..100
      /\ tasks[t].pc = "done" /\ WasNativeOpen(tasks[t].pre) /\ plugged =>
           NativeOpen /\ ~isProgramming

\* C14: when port.open fails in the finally step of a flash session, the call
\* fails and the session is Disconnected: isConnected is false.
C14_LostPortDisconnects ==
  \A t \in Tasks :
    FlashDone(t) /\ tasks[t].err = "port.open rejected" =>
      tasks[t].outcome = "threw" /\ ~isConnected

\* C15: a command transaction that fails for want of a valid response leaves
\* isConnected, chip, the port and the reader and writer as they were: at every
\* point of a sendCommandWithRetry call, so after each timed-out sendCommand and
\* after the final failure, and a NativeOpen session is still NativeOpen.
C15_ProtocolFailureKeepsMode ==
  \A t \in Tasks :
    tasks[t].op = "retry" =>
      /\ Snapshot = tasks[t].pre
      /\ WasNativeOpen(tasks[t].pre) => NativeOpen

C15_Witness ==
  \E t \in Tasks :
    /\ tasks[t].op = "retry" /\ tasks[t].pc = "done"
    /\ tasks[t].err = "No valid response after 3 retries"
    /\ tasks[t].log[1] = <<>> /\ WasNativeOpen(tasks[t].pre) /\ NativeOpen

\* C16: native reader/writer handles are never held while a flashing
\* transport is bound or a flash session is between its close of the native
\* handles and their reacquisition, whatever calls overlap.
C16_OneModeActive ==
  (readerRef # 0 \/ writerRef # 0) =>
    /\ transportRef = 0 /\ espLoaderRef = 0
    /\ \A t \in Tasks : ~FlashInFlight(t)

\* C18: two command transactions never have reads pending on the reader at
\* the same time.
C18_OneTransactionReads ==
  \A i, j \in 1..Len(pendingReads) :
    pendingReads[i] # 0 /\ pendingReads[j] # 0 => pendingReads[i] = pendingReads[j]

\* C19: an error thrown by the flashing capability inside the flash session is
\* the error the caller of eraseFlash()/programFlash() gets, whatever the later
\* release and reopen steps do.
C19_FnErrorReachesCaller ==
  \A t \in Tasks :
    FlashDone(t) /\ tasks[t].fnErr # "" =>
      tasks[t].outcome = "threw" /\ tasks[t].err = tasks[t].fnErr

\* Overlapping calls from a flash session in its post-flash delay: the state
\* eraseFlash() reaches from a connected session once fn has returned and
\* cleanupESPTool has released the transport (useSerialConnection.ts 184-185).
InitPostFlash ==
  /\ isConnected = TRUE /\ chip = DetectedChip
  /\ portRef = 1 /\ writerRef = 0 /\ readerRef = 0
  /\ transportRef = 0 /\ espLoaderRef = 0
  /\ isErasing = TRUE /\ isProgramming = FALSE /\ progress = 0
  /\ isUpdating = FALSE /\ AppIdle
  /\ serialLib = TRUE
  /\ plugged = TRUE /\ portOpen = FALSE
  /\ readerLock = 0 /\ writerLock = 0
  /\ connected = {} /\ released = {3} /\ nextId = 4
  /\ rxQueue = <<>> /\ pendingReads = <<>> /\ devInbox = <<>>
  /\ tasks = [t \in Tasks |->
               IF t = 1
                 THEN [IdleTask EXCEPT
                         !.op = "erase", !.pc = "delay",
                         !.pre = [isConnected |-> TRUE, chip |-> NativeChip, portRef |-> 1,
                                  writerRef |-> 1, readerRef |-> 2,
                                  transportRef |-> 0, espLoaderRef |-> 0],
                         !.lr = 2, !.lw = 1, !.lp = 1, !.tr = 3, !.ld = 3, !.ct = 3,
                         !.made = {3}, !.touched = TRUE]
                 ELSE IdleTask]
  /\ opsStarted = 1 /\ commandsLeft = MaxRetryCalls
  /\ callersSerialize = FALSE
  /\ helperIn = <<>> /\ helperOut = <<>>

SpecPostFlash == InitPostFlash /\ [][Next]_vars

\* C17: a sendCommand call gets past its guard, and so writes, only in
\* NativeOpen mode with no flash session in flight; any other call, made
\* while Disconnected or at any point of a flash session, is rejected with
\* 'Serial connection not established' before a byte is written.
C17_WritesOnlyInNativeOpen ==
  [][\A t \in Tasks :
       tasks'[t].op \in {"retry", "update"} /\ tasks'[t].sends # tasks[t].sends
         /\ tasks'[t].pc # "idle"
       => NativeOpen /\ \A u \in Tasks : ~FlashInFlight(u)]_vars

Reading(t) == tasks[t].pc = "sc_read"

\* C20: once its write has completed sendCommand terminates: the read loop is
\* always left, and it is left by returning text to the caller, never by a
\* throw; left with no chunk taken (the deadline won, or the read ended), the
\* text returned is the trimmed text accumulated so far.
C20_SendCommandTerminates ==
  /\ \A t \in Tasks : Reading(t) ~> ~Reading(t)
  /\ [][\A t \in Tasks :
          Reading(t) /\ ~Reading(t)'
          => /\ Len(tasks'[t].log) = Len(tasks[t].log) + 1
             /\ ~(tasks'[t].pc = "done" /\ tasks'[t].outcome = "threw"
                  /\ tasks'[t].err # "No valid response after 3 retries")
             /\ rxQueue' = rxQueue
                => tasks'[t].log[Len(tasks'[t].log)] = Trim(tasks[t].response)]_vars

C20_Witness ==
  \E t \in Tasks :
    /\ tasks[t].op = "retry" /\ Len(tasks[t].log) >= 1
    /\ tasks[t].sent[1] = "split" /\ tasks[t].log[1] = tasks[t].cmd \o RESPONSE
    /\ plugged /\ NativeOpen

\* C21: a read that lost the race against the deadline timer is cancelled: no
\* read issued by a sendCommand that has returned is still pending on the
\* reader.
C21_TimedOutReadCancelled ==
  \A i \in 1..Len(pendingReads) : pendingReads[i] # 0

\* The whole trimmed text is an optionally signed run of decimal digits.
FiniteNumberText(text) ==
  LET s == Trim(text)
      digits == IF s # <<>> /\ s[1] \in {"-", "+"} THEN Tail(s) ELSE s
  IN digits # <<>> /\ \A i \in 1..Len(digits) : IsDigit(digits[i])

\* The entries of the flat record that unflattenObject writes at the top level.
TopLevel(flat) == {i \in 1..Len(flat) : split(flat[i].key) = <<flat[i].key>>}

\* C22: unflattenObject writes a leaf as a number exactly when the whole
\* trimmed string is a finite number, and keeps the string otherwise: the
\* empty and the blank string stay strings, 'Infinity' stays a string.
C22_LeafIsNumberIffFinite ==
  Len(helperOut) = 2 /\ helperOut[2].type = "object" =>
    \A i \in TopLevel(helperOut[1]) :
      LET value == helperOut[1][i].val
          leaf == GetProp(helperOut[2].entries, helperOut[1][i].key)
      IN /\ leaf.type \in {"number", "infinity"} <=> FiniteNumberText(value)
         /\ ~FiniteNumberText(value) => leaf = StringLeaf(value)

PreferenceWrites == {"update", "save"}

\* The errors of a preference write that ended before its sendCommand wrote.
EndedBeforeWrite ==
  {"No preferences data", "Invalid JSON format", "TypeError",
   "Serial connection not established"}

\* C23 as stated: every saveSettingsValues() or updateAllSettings() call that
\* has completed issued exactly one sendCommand (a sendCommand rejected for
\* want of a connection counts as issued).
C23_ExactlyOneWrite ==
  \A t \in Tasks :
    tasks[t].op \in PreferenceWrites /\ tasks[t].pc = "done" =>
      tasks[t].sends = 1 \/ tasks[t].err = "Serial connection not established"

\* C23: a saveSettingsValues() or updateAllSettings() call issues at most one
\* sendCommand, whatever the device answers: none when updateAllSettings
\* rejects its text or unflattenObject throws, exactly one otherwise.
C23_AtMostOneWrite ==
  \A t \in Tasks :
    tasks[t].op \in PreferenceWrites =>
      /\ tasks[t].sends <= 1
      /\ tasks[t].pc = "done" /\ tasks[t].err \notin EndedBeforeWrite => tasks[t].sends = 1
      /\ tasks[t].pc = "done" /\ tasks[t].err \in EndedBeforeWrite => tasks[t].sends = 0

C23_Witness ==
  \E t \in Tasks :
    /\ tasks[t].op = "save" /\ tasks[t].pc = "done"
    /\ tasks[t].err = "Update failed" /\ tasks[t].sends = 1
    /\ tasks[t].sent = <<"error">>

Reopening == {"sns_request", "sns_open", "sns_rejected"}

\* C24: the steps of one withESPTool call come in order.  Chip detection
\* starts after closeNativeSerial, with the native reader and writer released
\* and the port closed; fn starts after chip detection has succeeded; the
\* transport is released after fn has ended; the post-delay (1000 ms for
\* erase, 2000 ms for program) follows the release; the native reopen starts
\* when that delay has elapsed.
C24_StepsInOrder ==
  [][\A t \in Tasks :
       LET a == tasks[t].pc
           b == tasks'[t].pc
           r == tasks'[t]
       IN r.op \in FlashOps /\ a # b =>
            /\ b = "main" =>
                 /\ a \in {"cns_close", "cns_ret"}
                 /\ readerRef' = 0 /\ writerRef' = 0
                 /\ readerLock' = 0 /\ writerLock' = 0
                 /\ ~portOpen'
            /\ b = "fn" => a = "main" /\ chip' = DetectedChip /\ r.tr \in connected'
            /\ b = "fn_reset" => a = "fn"
            /\ b = "cet" => a \in {"fn", "fn_reset"}
            /\ b = "delay" => a = "cet" /\ transportRef' = 0 /\ r.ct \in released'
            /\ b \in Reopening /\ a \notin Reopening =>
                 a = "delay" /\ r.waited = IF r.op = "program" THEN 2000 ELSE 1000]_vars

C24_Witness ==
  \E t \in Tasks :
    /\ tasks[t].op = "program" /\ tasks[t].pc = "done" /\ tasks[t].outcome = "returned"
    /\ tasks[t].waited = 2000 /\ tasks[t].reset /\ NativeOpen

\* C25: programFlash issues loader.after('hard_reset') exactly when writeFlash
\* completed: the reset starts from the end of a complete write, while the
\* transport is still bound and not released, and a write that throws goes
\* to the cleanup without a reset.
C25_ResetIffWritten ==
  [][\A t \in Tasks :
       LET a == tasks[t].pc
           b == tasks'[t].pc
           r == tasks'[t]
       IN a # b =>
            /\ b = "fn_reset" =>
                 /\ a = "fn" /\ r.op = "program" /\ r.written = ImageBlocks
                 /\ transportRef' = r.tr /\ r.tr \notin released'
            /\ a = "fn" /\ r.op = "program" /\ b # "fn_reset" =>
                 b = "cet" /\ r.fnErr = "writeFlash rejected" /\ ~r.reset
            /\ a = "fn_reset" => b = "cet" /\ r.tr \notin released'
            /\ r.reset => r.op = "program" /\ r.written = ImageBlocks]_vars

C25_Witness ==
  \E t \in Tasks :
    /\ tasks[t].op = "program" /\ tasks[t].pc = "cet" /\ tasks[t].reset
    /\ tasks[t].written = ImageBlocks /\ tasks[t].fnErr = ""
    /\ tasks[t].ct \notin released

\* C26: sendCommand writes the command followed by a newline; it goes on
\* reading only while the accumulated text contains neither 'END' nor
\* 'ERROR', and leaves no read of its own behind once a chunk completed the
\* text; what it returns is the accumulated text, trimmed.
C26_NewlineStopTrim ==
  [][\A t \in Tasks :
       LET old == tasks[t]
           r == tasks'[t]
       IN /\ old.pc = "sc_write" /\ r.pc = "sc_read" /\ Len(devInbox') > Len(devInbox) =>
               devInbox'[Len(devInbox')].line = r.cmd \o <<"\n">>
          /\ r.pc = "sc_read" =>
               ~Includes(r.response, END) /\ ~Includes(r.response, ERROR)
          /\ (\E i \in 1..Len(pendingReads') : pendingReads'[i] = t) => r.pc = "sc_read"
          /\ Len(r.log) > Len(old.log) =>
               /\ old.pc = "sc_read"
               /\ r.log[Len(r.log)] \in
                    {Trim(old.response)} \cup
                    (IF rxQueue # <<>> THEN {Trim(old.response \o Head(rxQueue).text)} ELSE {})]_vars

C26_Witness ==
  \E t \in Tasks :
    /\ tasks[t].op = "retry" /\ tasks[t].pc = "done" /\ Len(tasks[t].log) = 1
    /\ tasks[t].log[1] = SubSeq(Frame(tasks[t].cmd), 1, Len(Frame(tasks[t].cmd)) - 1)

\* C27: a flash session keeps the port: no step of a flash task changes the
\* port handle, the handle after withESPTool is the one held before it, and
\* requestPort is called only by connect() while no port is held, never by
\* the reopen step of a flash session.
C27_FlashKeepsPort ==
  [][\A t \in Tasks :
       LET old == tasks[t]
           r == tasks'[t]
       IN /\ r.pc = "sns_request" /\ old.pc # "sns_request" =>
               r.op = "connect" /\ portRef = 0
          /\ r.op \in FlashOps /\ old # r => portRef' = portRef
          /\ r.op \in FlashOps /\ r.pc = "done" => portRef' = r.pre.portRef]_vars

C27_Witness ==
  \E t \in Tasks :
    /\ tasks[t].op \in FlashOps /\ tasks[t].pc = "done" /\ tasks[t].lp # 0
    /\ tasks[t].pre.portRef = portRef /\ portRef # 0 /\ readerRef # 0

\* C28: an error thrown by a best-effort cleanup call is swallowed.  When
\* reader.cancel, port.close or transport.disconnect rejects, the step goes
\* on as it does when the call succeeds: closeNativeSerial returns to its
\* caller, withESPTool goes on to chip detection and to its post-delay with
\* fn's result unchanged, and disconnect() returns without error, Disconnected.
C28_CleanupFailuresSwallowed ==
  [][\A t \in Tasks :
       LET old == tasks[t]
           r == tasks'[t]
       IN old # r /\ old.pc \in {"cns_cancel", "cns_close", "cet"} =>
            /\ r.fnErr = old.fnErr
            /\ r.outcome = "threw" => r.err = "No device available" /\ portRef = 0
            /\ old.pc = "cns_cancel" => r.pc = IF old.lp # 0 THEN "cns_close" ELSE "cns_ret"
            /\ old.pc = "cns_close" /\ r.op \in FlashOps =>
                 r.pc = "main" \/ (portRef = 0 /\ r.pc = "done")
            /\ old.pc = "cns_close" /\ r.op = "disconnect" => r.pc = "cet"
            /\ old.pc = "cet" /\ r.op \in FlashOps => r.pc = "delay"
            /\ old.pc = "cet" /\ r.op = "disconnect" =>
                 /\ r.pc = "done" /\ r.outcome = "returned"
                 /\ ~isConnected' /\ chip' = NoChip /\ portRef' = 0 /\ writerRef' = 0
                 /\ readerRef' = 0 /\ transportRef' = 0 /\ espLoaderRef' = 0]_vars

C28_Witness ==
  \E t \in Tasks :
    /\ tasks[t].op = "disconnect" /\ tasks[t].pc = "done" /\ tasks[t].outcome = "returned"
    /\ tasks[t].swallowed # {} /\ Disconnected

ConnectInFlight == \E t \in Tasks : tasks[t].op = "connect"

\* C29: once disconnect() has completed the session stays Disconnected until
\* the next connect(): while no connect() is running, a Disconnected hook
\* stays Disconnected, no call starts to request or open the port, and the
\* port does not become open, also when a flash session was in flight when
\* disconnect() was called.
C29_StaysDisconnected ==
  [][Disconnected /\ ~ConnectInFlight /\ ~ConnectInFlight' =>
       /\ Disconnected'
       /\ \A t \in Tasks : tasks'[t].pc \in Reopening => tasks[t].pc \in Reopening
       /\ portOpen' => portOpen]_vars

\* C30: a preference write returns normally only when the device acknowledged
\* it: the text sendCommand returned to saveSettingsValues or updateAllSettings
\* is a well-formed SET_PREFS:RESPONSE ... END frame.
C30_ReturnsOnlyWhenAcknowledged ==
  \A t \in Tasks :
    tasks[t].op \in PreferenceWrites /\ tasks[t].pc = "done" /\ tasks[t].outcome = "returned" =>
      Len(tasks[t].log) = 1 /\ hasValidResponse(tasks[t].log[1], SET_PREFS)

\* The chunk that the read of task t takes in this step.
TakesChunk(t) ==
  /\ tasks[t].pc = "sc_read" /\ tasks'[t] # tasks[t]
  /\ pendingReads # <<>> /\ Head(pendingReads) = t
  /\ rxQueue # <<>> /\ rxQueue' = Tail(rxQueue)

\* C31: the text a sendCommand call returns holds only data the device sent
\* in reply to that call's own write: every chunk its read loop takes was sent
\* in answer to the command line this call (this attempt) wrote.
C31_OnlyOwnReply ==
  [][\A t \in Tasks :
       TakesChunk(t) =>
         Head(rxQueue).task = t /\ Head(rxQueue).attempt = tasks[t].attempt]_vars

\* C32: no preference data survives a session.  When handleDisconnect has
\* completed, the preferences text, settingsKeys and settingsValues are all
\* empty; and after a later connect whose settings initialization failed,
\* settingsValues (what saveSettingsValues would send) holds nothing, since
\* nothing was fetched in this session.
C32_NoPreferenceDataSurvives ==
  \A t \in Tasks :
    /\ tasks[t].op = "handleDisconnect" /\ tasks[t].pc = "done" =>
         preferences = <<>> /\ settingsKeys = <<>> /\ settingsValues = <<>>
    /\ tasks[t].op = "initializeSettings" /\ tasks[t].pc = "done" /\ tasks[t].caught # "" =>
         settingsValues = <<>>

\* C33: whenever firmwareData is non-null it is the image fetched for the
\* selected (selectedLabel, flashType) pair, under any interleaving of
\* selectFirmware and changeFlashType calls, also with a load in flight; so
\* programFlash is never started with a firmware-only image at address 0x0
\* nor with a merged image at 0x10000.
C33_FirmwareMatchesSelection ==
  /\ firmwareData # NullImage => firmwareData = ImageOf(selectedLabel, flashType)
  /\ \A t \in Tasks :
       tasks[t].op = "program" /\ tasks[t].image # NullImage =>
         /\ ~(tasks[t].image.type = "fw" /\ tasks[t].address = 0)
         /\ ~(tasks[t].image.type = "full" /\ tasks[t].address = 65536)

\* C34: withESPTool called with no port handle fails with "No device
\* available" before invoking fn and leaves the state as it was: every step of
\* such a call keeps the refs, isConnected and the chip, requests and opens no
\* port, binds no transport, and the call ends by throwing that error.
C34_NoDeviceAvailable ==
  [][\A t \in Tasks :
       tasks'[t].op \in FlashOps /\ tasks'[t].pre.portRef = 0 =>
         /\ UNCHANGED <<refs, conn, portOpen, connected, released, nextId, serialLib>>
         /\ tasks'[t].pc \in {"cns_ret", "done"}
         /\ tasks'[t].made = {} /\ tasks'[t].fnErr = "" /\ tasks'[t].written = 0
         /\ tasks'[t].pc = "done" =>
              tasks'[t].outcome = "threw" /\ tasks'[t].err = "No device available"]_vars

C34_Witness ==
  \E t \in Tasks :
    /\ tasks[t].op \in FlashOps /\ tasks[t].pre.portRef = 0
    /\ tasks[t].pc = "done" /\ tasks[t].err = "No device available"
    /\ portRef = 0 /\ transportRef = 0 /\ ~isConnected

\* C35: settings initialization is non-critical: when serial.connect succeeded
\* and initializeSettings() failed, the connect intent still succeeds: it
\* returns, the session is NativeOpen with isConnected true, no error alert is
\* raised and isLoading is false.
C35_InitFailureNonCritical ==
  \A t \in Tasks :
    /\ tasks[t].op = "initializeSettings" /\ tasks[t].pc = "done"
    /\ tasks[t].caught # "" \/ tasks[t].outcome = "threw"
    =>
      /\ tasks[t].outcome = "returned"
      /\ alertAfter(tasks[t], "Connection failed") = <<>>
      /\ NativeOpen /\ isConnected
      /\ ~isLoading

C35_Witness ==
  \E t \in Tasks :
    /\ tasks[t].op = "initializeSettings" /\ tasks[t].pc = "done"
    /\ tasks[t].caught = "No valid response after 3 retries"
    /\ tasks[t].outcome = "returned" /\ isConnected /\ ~isLoading

\* C36: initializeSettings() updates the settings all-or-nothing: GET_PREFS is
\* requested only after GET_PREF_KEYS gave a non-empty key list, and when
\* either request fails neither settingsKeys nor settingsValues is changed.
C36_SettingsAllOrNothing ==
  \A t \in Tasks :
    tasks[t].op = "initializeSettings" =>
      /\ tasks[t].cmd = GET_PREFS => settingsKeys # <<>>
      /\ tasks[t].pc = "done" /\ tasks[t].caught # "" =>
           settingsKeys = tasks[t].preKeys /\ settingsValues = tasks[t].preValues

\* C37: sendCommandWithRetry retries only on an empty or invalid response
\* text: the delay before another attempt is entered only from a sendCommand
\* that returned such a text, and when sendCommand throws (connection not
\* established, or the write fails) the call ends at that attempt with that
\* error.
SendCommandErrors == {"Serial connection not established", "writer.write rejected"}

C37_ThrowIsNotRetried ==
  [][\A t \in Tasks :
       tasks'[t].op = "retry" =>
         /\ tasks'[t].pc = "retry_delay" /\ tasks[t].pc # "retry_delay" =>
              /\ Len(tasks'[t].log) = Len(tasks[t].log) + 1
              /\ LET text == tasks'[t].log[Len(tasks'[t].log)]
                 IN text = <<>> \/ ~hasValidResponse(text, tasks'[t].cmd)
         /\ tasks'[t].pc = "done" /\ tasks[t].pc # "done"
              /\ tasks'[t].err \in SendCommandErrors =>
              /\ tasks'[t].outcome = "threw"
              /\ Len(tasks'[t].log) = tasks'[t].attempt - 1
              /\ tasks'[t].sends <= tasks'[t].attempt]_vars

C37_Witness ==
  \E t \in Tasks :
    /\ tasks[t].op = "retry" /\ tasks[t].pc = "done" /\ tasks[t].outcome = "threw"
    /\ tasks[t].err = "writer.write rejected"
    /\ tasks[t].attempt = 2 /\ Len(tasks[t].log) = 1

\* C38: a failed connect() leaves the hook exactly as it was before the call:
\* no port handle is retained when port.open fails, so the next connect() asks
\* the port picker again.
C38_FailedConnectLeavesNothing ==
  \A t \in Tasks :
    tasks[t].op = "connect" /\ tasks[t].pc = "done" /\ tasks[t].outcome = "threw" =>
      /\ Snapshot = tasks[t].pre
      /\ tasks[t].err = "port.open rejected" => portRef = 0

====
